---- MODULE Spec2Model ----
(***************************************************************************)
(* Model of the Device Interaction & Observation Engine of AndSandbox:     *)
(*   - AutoExplorer      (src/Module/AutoExplorer.py)                      *)
(*   - UiChangeMonitor   (src/Module/UiChangeMonitor.py)                   *)
(*   - get_ui_dump_hash  (src/Module/AdbController.py)                     *)
(*   - the mitm script   (src/Module/MitmproxyCapture.py)                  *)
(*   - the session loop  (src/Module/APKTestSuite.py)                      *)
(* The device (uiautomator2) is the environment: the UI tree it shows, the *)
(* elements that vanish between being found and being acted upon, the      *)
(* fingerprints it returns and the captures that fail are nondeterministic *)
(* inputs of the actions.                                                  *)
(***************************************************************************)
EXTENDS Integers, Sequences, FiniteSets, TLC

(***************************************************************************)
(* Bounds of the model.                                                    *)
(***************************************************************************)
\* largest number of elements the UI tree shows at once
MaxTree == 2
\* largest number of signatures visited_elements holds before the idle fallback
\* clears it
MaxVisited == 2
\* largest number of polling ticks of the change detector
MaxTicks == 3
\* largest polling interval, in steps of the clock
MaxInterval == 2
\* largest number of times the device's UI changes while the detector runs
MaxUiChanges == 2
\* number of distinct fingerprints the device's UI can have
NumHashes == 2
\* largest number of nodes of a UI dump
MaxNodes == 1
\* largest number of request events the proxy delivers
MaxRequests == 3

\* calls of explore_step in one run of the test suite
MaxRunSteps == 2
\* largest number of response events whose request event was not seen
MaxStray == 1

(***************************************************************************)
(* Program constants of AutoExplorer.__init__.                             *)
(***************************************************************************)
idle_for_back_press == 15

INPUT_TEXTS == <<"testuser", "123456", "test@example.com", "My Test Note">>

\* the Latin-script alternatives of CONFIRM_KEYWORDS_REGEX; the regex is
\* case-insensitive, so the capitalised spellings match as well
CONFIRM_KEYWORDS ==
    {"login", "ok", "next", "done", "agree", "confirm", "search", "submit",
     "Login", "OK", "Next", "Done", "Agree", "Confirm", "Search", "Submit"}

\* the Latin-script entries of BOTTOM_NAV_KEYWORDS, in list order
BOTTOM_NAV_KEYWORDS ==
    <<"Home", "About", "Profile", "Wallet", "Community", "Message">>

(***************************************************************************)
(* The device: the elements a UI tree can hold.  An element's position in  *)
(* Elements is its position in the hierarchy, which is the order in which  *)
(* a uiautomator2 selector yields its matches.                             *)
(***************************************************************************)
\* d.window_size()[1]
ScreenHeight == 100

Elements ==
    << \* 1: the system permission dialog's allow button
       [cls |-> "android.widget.Button",
        rid |-> "com.android.permissioncontroller:id/permission_allow_button",
        text |-> "Allow", desc |-> "", clickable |-> TRUE,
        pkg |-> "com.android.permissioncontroller", top |-> 50],
       \* 2: a text-input field
       [cls |-> "android.widget.EditText", rid |-> "app:id/user",
        text |-> "", desc |-> "", clickable |-> TRUE, pkg |-> "app", top |-> 20],
       \* 3: a second text-input field, not clickable
       [cls |-> "android.widget.EditText", rid |-> "app:id/pass",
        text |-> "", desc |-> "", clickable |-> FALSE, pkg |-> "app", top |-> 30],
       \* 4: a confirm-labelled button
       [cls |-> "android.widget.Button", rid |-> "app:id/submit",
        text |-> "OK", desc |-> "", clickable |-> TRUE, pkg |-> "app", top |-> 40],
       \* 5: a bottom-navigation item inside the bottom band
       [cls |-> "android.widget.TextView", rid |-> "app:id/nav",
        text |-> "Home", desc |-> "", clickable |-> TRUE, pkg |-> "app", top |-> 90],
       \* 6: a bottom-navigation item whose top edge is exactly at 85%
       [cls |-> "android.widget.TextView", rid |-> "app:id/nav",
        text |-> "Profile", desc |-> "", clickable |-> TRUE, pkg |-> "app", top |-> 85],
       \* 7: the same label as 5 at the top of the screen (same signature as 5)
       [cls |-> "android.widget.TextView", rid |-> "app:id/nav",
        text |-> "Home", desc |-> "", clickable |-> TRUE, pkg |-> "app", top |-> 10],
       \* 8: a tab
       [cls |-> "android.widget.TabWidget", rid |-> "app:id/tabs",
        text |-> "News", desc |-> "", clickable |-> TRUE, pkg |-> "app", top |-> 5],
       \* 9: an ordinary button
       [cls |-> "android.widget.Button", rid |-> "app:id/go",
        text |-> "Go", desc |-> "more", clickable |-> TRUE, pkg |-> "app", top |-> 50],
       \* 10: a clickable element of the system UI
       [cls |-> "android.widget.ImageView", rid |-> "com.android.systemui:id/back",
        text |-> "", desc |-> "Back", clickable |-> TRUE,
        pkg |-> "com.android.systemui", top |-> 95] >>

ElemIds == DOMAIN Elements

Trees == {t \in SUBSET ElemIds : Cardinality(t) <= MaxTree}

\* the interaction point at which the element a handler found has vanished:
\*   "focus"  at el.click() of the input-field handler
\*   "info"   at element.info of _perform_action
\*   "exists" at element.exists of _perform_action
\*   "act"    at the click()/set_text() itself
StalePoints == {"none", "focus", "info", "exists", "act"}

\* the same for the confirm button of the input-field handler:
\*   "exists" at confirm_button.exists, "act" at confirm_button.click()
ConfirmStalePoints == {"none", "exists", "act"}

\* seconds that pass between two readings of the clock
TimeSteps == {5}

VARIABLES
    tree,              \* the elements the device shows
    visited_elements,  \* AutoExplorer.visited_elements
    idle,              \* time.time() - last_action_time, saturating above the threshold
    loop_alive,        \* the orchestrator's exploration loop is still calling explore_step
    last_acts,         \* the device actions of the explore_step call just made
    last_fired,        \* the branch of explore_step that ended that call
    last_raised,       \* that call ended by raising UiObjectNotFoundError
    last_hit,          \* the stale interaction point that call ran into
    new_el,            \* the one element that appeared in an otherwise static tree (0: none yet)
    new_calls,         \* the calls that acted on new_el since the last clear (counted up to 2)
    monitoring,        \* UiChangeMonitor._monitoring
    last_ui_hash,      \* UiChangeMonitor.last_ui_hash (0: None)
    screenshot_paths,  \* UiChangeMonitor.screenshot_paths, each path by its label
    main_pc,           \* where the orchestrator is with the detector
    mon_pc,            \* where the polling thread is ("none": no thread yet)
    current_ui_hash,   \* the polling thread's local current_ui_hash (0: None)
    shot_name,         \* the label of the capture in flight
    interval,          \* the polling interval start() was given
    slept,             \* how much of time.sleep(interval) has passed
    ui_hash,           \* the fingerprint of what the device shows
    ui_changes,        \* how often the device's UI has changed since start()
    fetched,           \* what get_ui_dump_hash returned, tick by tick
    fetched_at_change, \* how many ticks had fetched when the UI first changed
    capture_failed,    \* some capture of this session failed
    mon_calls,         \* the device calls of the polling thread, in order
    xml_a,             \* a UI dump the device returns from dump_hierarchy()
    xml_b,             \* another UI dump
    hash_a,            \* what get_ui_dump_hash returned for xml_a
    hash_b,            \* what get_ui_dump_hash returned for xml_b
    flows,             \* the mitm script's list `flows`
    flows_file,        \* what the file flows.json holds
    hs,                \* where each running invocation of request()/response() is
    proxy,             \* the mitmdump process: "running" or "terminated"
    awaiting,          \* per URL, the requests observed whose response event is still to come
    req_count,         \* the request events delivered so far
    network_flows,     \* final_report["network_flows"] as run() sets it
    stray,             \* the URLs of the response events delivered for flows whose
                       \* request event the script did not see
    engine_pc,         \* the main thread is inside a call of explore_step ("in_step") or not
    run_pc,            \* where APKTestSuite.run is
    run_log,           \* the steps run() has performed, in order, each with its result
    package_name,      \* run()'s local package_name: "None" until the analysis gave it
    report_screenshots,\* final_report["screenshots"] as run() sets it
    since_back,        \* seconds since the engine last sent "back" (-1: none sent yet)
    recent_fired       \* the branches the last two calls of explore_step took

explorer_vars ==
    <<tree, visited_elements, idle, loop_alive, last_acts, last_fired, last_raised, last_hit>>

dedup_vars == <<new_el, new_calls>>

monitor_vars ==
    <<monitoring, last_ui_hash, screenshot_paths, main_pc, mon_pc, current_ui_hash,
      shot_name, interval, slept, ui_hash, ui_changes, fetched, fetched_at_change,
      capture_failed, mon_calls>>

\* the components an action of the engine or of the detector does not touch:
\* the fingerprinter's inputs and results, the flow correlator
fingerprint_vars == <<xml_a, xml_b, hash_a, hash_b>>

correlator_vars ==
    <<flows, flows_file, hs, proxy, awaiting, req_count, network_flows, stray>>

run_vars == <<run_pc, run_log, package_name, report_screenshots>>

session_vars == <<engine_pc, run_vars>>

back_vars == <<since_back, recent_fired>>

other_vars == <<fingerprint_vars, correlator_vars, session_vars, back_vars>>

vars == <<explorer_vars, dedup_vars, monitor_vars, other_vars>>

(***************************************************************************)
(* AutoExplorer                                                            *)
(***************************************************************************)
Min(S) == CHOOSE x \in S : \A y \in S : x <= y

\* _get_element_signature
Signature(e) ==
    <<Elements[e].cls, Elements[e].rid, Elements[e].text, Elements[e].desc>>

Signatures == {Signature(e) : e \in ElemIds}

\* mutant of Unvisited: the visited set is never consulted
UnvisitedAlways(e, visited) == TRUE

\* `signature not in self.visited_elements`
Unvisited(e, visited) == Signature(e) \notin visited

\* one device action: who did it (role), what it was (op), on which element
\* (0 for the back key), the text it entered, and whether that element's
\* signature was in visited_elements at the moment of the action
Act(role, op, e, text, visited) ==
    [role |-> role, op |-> op, el |-> e, text |-> text,
     seen |-> IF e = 0 THEN FALSE ELSE Signature(e) \in visited]

\* the result of a handler
Ret(ret, raised, acts, visited, acted, hit) ==
    [ret |-> ret, raised |-> raised, acts |-> acts, visited |-> visited,
     acted |-> acted, hit |-> hit]

\* mutant of PerformAction: the signature is not added to visited_elements
PerformActionNoMark(e, role, action_type, text_to_input, visited, st) ==
    IF st = "info" THEN Ret(FALSE, TRUE, <<>>, visited, FALSE, "info")
    ELSE IF Signature(e) \in visited THEN
        Ret(FALSE, FALSE, <<>>, visited, FALSE, "none")
    ELSE IF st \in {"exists", "act"} THEN
        Ret(FALSE, FALSE, <<>>, visited, FALSE, st)
    ELSE
        Ret(TRUE, FALSE,
            IF action_type = "click" THEN <<Act(role, "click", e, "", visited)>>
            ELSE <<Act(role, "set_text", e, text_to_input, visited)>>,
            visited, TRUE, "none")

\* mutant of PerformAction: last_action_time is not updated
PerformActionNoTimestamp(e, role, action_type, text_to_input, visited, st) ==
    IF st = "info" THEN Ret(FALSE, TRUE, <<>>, visited, FALSE, "info")
    ELSE IF Signature(e) \in visited THEN
        Ret(FALSE, FALSE, <<>>, visited, FALSE, "none")
    ELSE IF st \in {"exists", "act"} THEN
        Ret(FALSE, FALSE, <<>>, visited, FALSE, st)
    ELSE
        Ret(TRUE, FALSE,
            IF action_type = "click" THEN <<Act(role, "click", e, "", visited)>>
            ELSE <<Act(role, "set_text", e, text_to_input, visited)>>,
            visited \cup {Signature(e)}, FALSE, "none")

\* _perform_action(element, action_type, text_to_input): role names the caller
PerformAction(e, role, action_type, text_to_input, visited, st) ==
    IF st = "info" THEN
        \* line 87: element.info of a vanished element raises, outside the try
        Ret(FALSE, TRUE, <<>>, visited, FALSE, "info")
    ELSE IF ~Unvisited(e, visited) THEN
        Ret(FALSE, FALSE, <<>>, visited, FALSE, "none")
    ELSE IF st = "exists" THEN
        Ret(FALSE, FALSE, <<>>, visited, FALSE, "exists")
    ELSE IF st = "act" THEN
        \* click()/set_text() raises UiObjectNotFoundError, caught at line 102
        Ret(FALSE, FALSE, <<>>, visited, FALSE, "act")
    ELSE
        Ret(TRUE, FALSE,
            IF action_type = "click" THEN <<Act(role, "click", e, "", visited)>>
            ELSE IF action_type = "input" /\ text_to_input # ""
                 THEN <<Act(role, "set_text", e, text_to_input, visited)>>
            ELSE <<>>,
            visited \cup {Signature(e)}, TRUE, "none")

\* resourceIdMatches=r".*permission_allow_button.*", clickable=True
IsAllowButton(e) ==
    /\ Elements[e].rid \in {"com.android.permissioncontroller:id/permission_allow_button"}
    /\ Elements[e].clickable

\* _handle_system_popups
HandleSystemPopups(t, visited, st) ==
    LET found == {e \in t : IsAllowButton(e)} IN
    IF found = {} THEN Ret(FALSE, FALSE, <<>>, visited, FALSE, "none")
    ELSE IF st = "act" THEN
        \* allow_button.click() on a vanished button raises; nothing catches it
        Ret(FALSE, TRUE, <<>>, visited, FALSE, "act")
    ELSE Ret(TRUE, FALSE, <<Act("popup", "click", Min(found), "", visited)>>,
             visited, FALSE, "none")

\* textMatches=CONFIRM_KEYWORDS_REGEX, clickable=True
IsConfirmButton(e) ==
    Elements[e].text \in CONFIRM_KEYWORDS /\ Elements[e].clickable

IsEditText(e) == Elements[e].cls = "android.widget.EditText"

\* _handle_input_fields
HandleInputFields(t, visited, st, cst) ==
    LET found == {e \in t : IsEditText(e) /\ Unvisited(e, visited)} IN
    IF found = {} THEN Ret(FALSE, FALSE, <<>>, visited, FALSE, "none")
    ELSE
    LET el == Min(found)
        input_text == INPUT_TEXTS[(Cardinality(visited) % Len(INPUT_TEXTS)) + 1]
    IN
    IF st = "focus" THEN
        \* line 127: el.click() on a vanished field raises; nothing catches it
        Ret(FALSE, TRUE, <<>>, visited, FALSE, "focus")
    ELSE
    LET focus == <<Act("focus", "click", el, "", visited)>>
        pa == PerformAction(el, "input", "input", input_text, visited, st)
        confirm == {e \in t : IsConfirmButton(e)}
    IN
    IF pa.raised THEN Ret(FALSE, TRUE, focus, visited, FALSE, pa.hit)
    ELSE IF confirm = {} \/ cst = "exists" THEN
        Ret(TRUE, FALSE, focus \o pa.acts, pa.visited, pa.acted,
            IF pa.hit # "none" THEN pa.hit
            ELSE IF confirm # {} THEN "confirm_exists" ELSE "none")
    ELSE IF cst = "act" THEN
        \* line 141: confirm_button.click() on a vanished button raises
        Ret(FALSE, TRUE, focus \o pa.acts, pa.visited, pa.acted, "confirm_act")
    ELSE
        Ret(TRUE, FALSE,
            focus \o pa.acts \o <<Act("confirm", "click", Min(confirm), "", pa.visited)>>,
            pa.visited, pa.acted, pa.hit)

\* index of a text in BOTTOM_NAV_KEYWORDS, 0 when it is none of them
KeywordIndex(text) ==
    IF \E i \in DOMAIN BOTTOM_NAV_KEYWORDS : BOTTOM_NAV_KEYWORDS[i] = text
    THEN CHOOSE i \in DOMAIN BOTTOM_NAV_KEYWORDS : BOTTOM_NAV_KEYWORDS[i] = text
    ELSE 0

\* `bounds.top < screen_height * 0.85` of _handle_bottom_navigation
AboveBottomArea(e) == Elements[e].top * 100 < ScreenHeight * 85

\* `bounds.top > screen_height * 0.85` of _handle_general_clickables
BelowBottomLine(e) == Elements[e].top * 100 > ScreenHeight * 85

\* _handle_bottom_navigation: keywords in list order, then elements in
\* hierarchy order
HandleBottomNavigation(t, visited, st) ==
    LET found == {e \in t : /\ KeywordIndex(Elements[e].text) # 0
                            /\ Elements[e].clickable
                            /\ ~AboveBottomArea(e)
                            /\ Unvisited(e, visited)}
    IN
    IF found = {} THEN Ret(FALSE, FALSE, <<>>, visited, FALSE, "none")
    ELSE
    LET k  == Min({KeywordIndex(Elements[e].text) : e \in found})
        el == Min({e \in found : KeywordIndex(Elements[e].text) = k})
        pa == PerformAction(el, "bottom_nav", "click", "", visited, st)
    IN  Ret(~pa.raised, pa.raised, pa.acts, pa.visited, pa.acted, pa.hit)

\* classNameMatches=r"(?i).*tab.*"
IsTabClass(e) == Elements[e].cls \in {"android.widget.TabWidget"}

\* _handle_tabs
HandleTabs(t, visited, st) ==
    LET found == {e \in t : /\ IsTabClass(e) /\ Elements[e].clickable
                            /\ Unvisited(e, visited)}
    IN
    IF found = {} THEN Ret(FALSE, FALSE, <<>>, visited, FALSE, "none")
    ELSE
    LET pa == PerformAction(Min(found), "tabs", "click", "", visited, st)
    IN  Ret(~pa.raised, pa.raised, pa.acts, pa.visited, pa.acted, pa.hit)

\* _handle_general_clickables
HandleGeneralClickables(t, visited, st) ==
    LET found == {e \in t :
                    /\ Elements[e].clickable
                    /\ ~IsEditText(e)
                    /\ Elements[e].pkg # "com.android.systemui"
                    /\ ~(KeywordIndex(Elements[e].text) # 0 /\ BelowBottomLine(e))
                    /\ Unvisited(e, visited)}
    IN
    IF found = {} THEN Ret(FALSE, FALSE, <<>>, visited, FALSE, "none")
    ELSE
    LET pa == PerformAction(Min(found), "general", "click", "", visited, st)
    IN  Ret(~pa.raised, pa.raised, pa.acts, pa.visited, pa.acted, pa.hit)

\* what a call of explore_step leaves behind
Outcome(fired, r) ==
    [fired |-> fired, raised |-> r.raised, acts |-> r.acts,
     visited |-> r.visited, acted |-> r.acted, hit |-> r.hit]

\* mutant of IdleFallback: the threshold itself already counts as idle
IdleFallbackAtThreshold(visited, elapsed) ==
    IF elapsed >= idle_for_back_press
    THEN Outcome("back", Ret(TRUE, FALSE, <<Act("back", "back", 0, "", visited)>>,
                             {}, TRUE, "none"))
    ELSE Outcome("nothing", Ret(FALSE, FALSE, <<>>, visited, FALSE, "none"))

\* mutant of IdleFallback: "back" is sent and VisitedSet is kept
IdleFallbackKeepsVisited(visited, elapsed) ==
    IF elapsed > idle_for_back_press
    THEN Outcome("back", Ret(TRUE, FALSE, <<Act("back", "back", 0, "", visited)>>,
                             visited, TRUE, "none"))
    ELSE Outcome("nothing", Ret(FALSE, FALSE, <<>>, visited, FALSE, "none"))

\* mutant of IdleFallback: "back" is sent and the timestamp is left as it was
IdleFallbackNoTimestamp(visited, elapsed) ==
    IF elapsed > idle_for_back_press
    THEN Outcome("back", Ret(TRUE, FALSE, <<Act("back", "back", 0, "", visited)>>,
                             {}, FALSE, "none"))
    ELSE Outcome("nothing", Ret(FALSE, FALSE, <<>>, visited, FALSE, "none"))

\* explore_step, lines 72-76: no handler fired
IdleFallback(visited, elapsed) ==
    IF elapsed > idle_for_back_press
    THEN Outcome("back", Ret(TRUE, FALSE, <<Act("back", "back", 0, "", visited)>>,
                             {}, TRUE, "none"))
    ELSE Outcome("nothing", Ret(FALSE, FALSE, <<>>, visited, FALSE, "none"))

\* explore_step, lines 60-76: from the bottom-navigation handler on
FromBottomNavigation(t, visited, elapsed, st) ==
    LET h3 == HandleBottomNavigation(t, visited, st) IN
    IF h3.ret \/ h3.raised THEN Outcome("bottom_nav", h3) ELSE
    LET h4 == HandleTabs(t, visited, st) IN
    IF h4.ret \/ h4.raised THEN Outcome("tabs", h4) ELSE
    LET h5 == HandleGeneralClickables(t, visited, st) IN
    IF h5.ret \/ h5.raised THEN Outcome("general", h5) ELSE
    IdleFallback(visited, elapsed)

\* mutant of ExploreStepResult: the `return` after the popup handler is
\* missing, so the call goes on to the input-field handler
ExploreStepNoReturn(t, visited, elapsed, st, cst) ==
    LET h1 == HandleSystemPopups(t, visited, st)
        h2 == HandleInputFields(t, visited, st, cst)
    IN
    IF h1.raised THEN Outcome("popup", h1)
    ELSE IF h2.ret \/ h2.raised
         THEN Outcome("input", [h2 EXCEPT !.acts = h1.acts \o h2.acts])
    ELSE IF h1.ret THEN Outcome("popup", h1)
    ELSE FromBottomNavigation(t, visited, elapsed, st)

\* mutant of ExploreStepResult: the input-field handler is tried before the
\* popup handler
ExploreStepInputFirst(t, visited, elapsed, st, cst) ==
    LET h2 == HandleInputFields(t, visited, st, cst) IN
    IF h2.ret \/ h2.raised THEN Outcome("input", h2) ELSE
    LET h1 == HandleSystemPopups(t, visited, st) IN
    IF h1.ret \/ h1.raised THEN Outcome("popup", h1) ELSE
    FromBottomNavigation(t, visited, elapsed, st)

\* explore_step, called with `elapsed` seconds on the idle clock
ExploreStepResult(t, visited, elapsed, st, cst) ==
    LET h1 == HandleSystemPopups(t, visited, st) IN
    IF h1.ret \/ h1.raised THEN Outcome("popup", h1) ELSE
    LET h2 == HandleInputFields(t, visited, st, cst) IN
    IF h2.ret \/ h2.raised THEN Outcome("input", h2) ELSE
    FromBottomNavigation(t, visited, elapsed, st)

(***************************************************************************)
(* UiChangeMonitor                                                         *)
(***************************************************************************)
Hashes == 1..NumHashes

\* `def start(self, interval: float = 2.0)`, in steps of the clock
DefaultInterval == 2

\* UiChangeMonitor.__init__
MonitorConstructed ==
    /\ monitoring = FALSE
    /\ last_ui_hash = 0
    /\ screenshot_paths = <<>>
    /\ main_pc = "init"
    /\ mon_pc = "none"
    /\ current_ui_hash = 0
    /\ shot_name = <<>>
    /\ interval = 0
    /\ slept = 0
    /\ ui_hash = 1
    /\ ui_changes = 0
    /\ fetched = <<>>
    /\ fetched_at_change = 0
    /\ capture_failed = FALSE
    /\ mon_calls = <<>>

\* mutant of UiHashChanged: with no fingerprint stored, nothing counts as a change
UiHashChangedFromStored(current, last) == current # 0 /\ last # 0 /\ current # last

\* mutant of UiHashChanged: a fingerprint that could not be obtained counts
\* as a change too
UiHashChangedOrMissing(current, last) == current # last

\* `current_ui_hash and current_ui_hash != self.last_ui_hash`
UiHashChanged(current, last) == current # 0 /\ current # last

\* mutant of ChangeName: the captures are counted from one
ChangeNameFromOne(paths) == <<"change", Len(paths) + 1>>

\* f"change_{len(self.screenshot_paths)}"
ChangeName(paths) == <<"change", Len(paths)>>

\* start(interval): set the flag, create and start the polling thread
Start ==
    /\ main_pc = "init"
    /\ \E i \in 1..MaxInterval : interval' = i
    /\ monitoring' = TRUE
    /\ mon_pc' = "initial"
    /\ main_pc' = "running"
    /\ UNCHANGED <<last_ui_hash, screenshot_paths, current_ui_hash, shot_name, slept,
                   ui_hash, ui_changes, fetched, fetched_at_change, capture_failed,
                   mon_calls>>

\* stop(), first statement: clear the flag
StopRequest ==
    /\ main_pc \in {"init", "running"}
    /\ monitoring' = FALSE
    /\ main_pc' = "joining"
    /\ UNCHANGED <<last_ui_hash, screenshot_paths, mon_pc, current_ui_hash, shot_name,
                   interval, slept, ui_hash, ui_changes, fetched, fetched_at_change,
                   capture_failed, mon_calls>>

\* mutant of StopReturn: stop() returns without joining the thread
StopReturnNoJoin ==
    /\ main_pc = "joining"
    /\ main_pc' = "stopped"
    /\ UNCHANGED <<monitoring, last_ui_hash, screenshot_paths, mon_pc, current_ui_hash,
                   shot_name, interval, slept, ui_hash, ui_changes, fetched,
                   fetched_at_change, capture_failed, mon_calls>>

\* stop(), the rest: `if self.thread and self.thread.is_alive(): self.thread.join()`
\* returns once there is no thread or the thread has ended
StopReturn ==
    /\ main_pc = "joining"
    /\ mon_pc \in {"none", "dead"}
    /\ main_pc' = "stopped"
    /\ UNCHANGED <<monitoring, last_ui_hash, screenshot_paths, mon_pc, current_ui_hash,
                   shot_name, interval, slept, ui_hash, ui_changes, fetched,
                   fetched_at_change, capture_failed, mon_calls>>

\* mutant of MonBeginInitial: the initial capture is taken only while the
\* flag is set
MonBeginInitialIfMonitoring ==
    /\ mon_pc = "initial"
    /\ IF monitoring
       THEN /\ mon_pc' = "capturing"
            /\ shot_name' = <<"initial">>
            /\ mon_calls' = Append(mon_calls, "screenshot:initial")
       ELSE /\ mon_pc' = "while"
            /\ UNCHANGED <<shot_name, mon_calls>>
    /\ UNCHANGED <<monitoring, last_ui_hash, screenshot_paths, main_pc, current_ui_hash,
                   interval, slept, ui_hash, ui_changes, fetched, fetched_at_change,
                   capture_failed>>

\* _monitor_loop, line 38: the thread begins the capture named "initial"
MonBeginInitial ==
    /\ mon_pc = "initial"
    /\ mon_pc' = "capturing"
    /\ shot_name' = <<"initial">>
    /\ mon_calls' = Append(mon_calls, "screenshot:initial")
    /\ UNCHANGED <<monitoring, last_ui_hash, screenshot_paths, main_pc, current_ui_hash,
                   interval, slept, ui_hash, ui_changes, fetched, fetched_at_change,
                   capture_failed>>

\* mutant of MonCaptureReturn: the fingerprint is stored only when the
\* capture succeeded
MonCaptureReturnStoreOnSuccess ==
    /\ mon_pc = "capturing"
    /\ \E ok \in BOOLEAN :
         /\ screenshot_paths' =
              IF ok THEN Append(screenshot_paths, shot_name) ELSE screenshot_paths
         /\ capture_failed' = (capture_failed \/ ~ok)
         /\ IF shot_name = <<"initial">>
            THEN /\ mon_pc' = "while"
                 /\ UNCHANGED <<last_ui_hash, slept>>
            ELSE /\ last_ui_hash' = IF ok THEN current_ui_hash ELSE last_ui_hash
                 /\ mon_pc' = "sleeping"
                 /\ slept' = 0
    /\ UNCHANGED <<monitoring, main_pc, current_ui_hash, shot_name, interval, ui_hash,
                   ui_changes, fetched, fetched_at_change, mon_calls>>

\* _take_screenshot_if_needed: controller.take_screenshot returns; the path is
\* appended when it succeeded.  After a change capture the loop stores the
\* fingerprint (line 48) and goes to sleep.
MonCaptureReturn ==
    /\ mon_pc = "capturing"
    /\ \E ok \in BOOLEAN :
         /\ screenshot_paths' =
              IF ok THEN Append(screenshot_paths, shot_name) ELSE screenshot_paths
         /\ capture_failed' = (capture_failed \/ ~ok)
    /\ IF shot_name = <<"initial">>
       THEN /\ mon_pc' = "while"
            /\ UNCHANGED <<last_ui_hash, slept>>
       ELSE /\ last_ui_hash' = current_ui_hash
            /\ mon_pc' = "sleeping"
            /\ slept' = 0
    /\ UNCHANGED <<monitoring, main_pc, current_ui_hash, shot_name, interval, ui_hash,
                   ui_changes, fetched, fetched_at_change, mon_calls>>

\* mutant of MonWhile: the thread takes the device only while the engine is
\* not inside a step
MonWhileEngineIdle ==
    /\ mon_pc = "while"
    /\ engine_pc = "idle"
    /\ IF monitoring
       THEN /\ Len(fetched) < MaxTicks
            /\ mon_pc' = "fetching"
            /\ mon_calls' = Append(mon_calls, "dump_hierarchy")
       ELSE /\ mon_pc' = "dead"
            /\ UNCHANGED mon_calls
    /\ UNCHANGED <<monitoring, last_ui_hash, screenshot_paths, main_pc, current_ui_hash,
                   shot_name, interval, slept, ui_hash, ui_changes, fetched,
                   fetched_at_change, capture_failed>>

\* mutant of MonWhile: the loop condition does not read the flag
MonWhileIgnoresFlag ==
    /\ mon_pc = "while"
    /\ Len(fetched) < MaxTicks
    /\ mon_pc' = "fetching"
    /\ mon_calls' = Append(mon_calls, "dump_hierarchy")
    /\ UNCHANGED <<monitoring, last_ui_hash, screenshot_paths, main_pc, current_ui_hash,
                   shot_name, interval, slept, ui_hash, ui_changes, fetched,
                   fetched_at_change, capture_failed>>

\* `while self._monitoring:` and, when it holds, the call of get_ui_dump_hash
MonWhile ==
    /\ mon_pc = "while"
    /\ IF monitoring
       THEN /\ Len(fetched) < MaxTicks
            /\ mon_pc' = "fetching"
            /\ mon_calls' = Append(mon_calls, "dump_hierarchy")
       ELSE /\ mon_pc' = "dead"
            /\ UNCHANGED mon_calls
    /\ UNCHANGED <<monitoring, last_ui_hash, screenshot_paths, main_pc, current_ui_hash,
                   shot_name, interval, slept, ui_hash, ui_changes, fetched,
                   fetched_at_change, capture_failed>>

\* get_ui_dump_hash returns the fingerprint of what the device shows, or None
\* when the dump failed; lines 41-47 compare it and begin the change capture
MonFetchReturn ==
    /\ mon_pc = "fetching"
    /\ \E ok \in BOOLEAN :
         LET h == IF ok THEN ui_hash ELSE 0 IN
         /\ current_ui_hash' = h
         /\ fetched' = Append(fetched, h)
         /\ IF UiHashChanged(h, last_ui_hash)
            THEN /\ mon_pc' = "capturing"
                 /\ shot_name' = ChangeName(screenshot_paths)
                 /\ mon_calls' = Append(mon_calls, "screenshot:change")
                 /\ UNCHANGED slept
            ELSE /\ mon_pc' = "sleeping"
                 /\ slept' = 0
                 /\ UNCHANGED <<shot_name, mon_calls>>
    /\ UNCHANGED <<monitoring, last_ui_hash, screenshot_paths, main_pc, interval,
                   ui_hash, ui_changes, fetched_at_change, capture_failed>>

\* time.sleep(interval): the clock advances, and the thread wakes up when the
\* interval has passed
MonSleep ==
    /\ mon_pc = "sleeping"
    /\ IF slept < interval
       THEN /\ slept' = slept + 1
            /\ UNCHANGED mon_pc
       ELSE /\ mon_pc' = "while"
            /\ UNCHANGED slept
    /\ UNCHANGED <<monitoring, last_ui_hash, screenshot_paths, main_pc, current_ui_hash,
                   shot_name, interval, ui_hash, ui_changes, fetched, fetched_at_change,
                   capture_failed, mon_calls>>

\* the device: what it shows changes, and with it the fingerprint
MonUiChange ==
    /\ main_pc = "running"
    /\ ui_changes < MaxUiChanges
    /\ \E h \in Hashes \ {ui_hash} : ui_hash' = h
    /\ ui_changes' = ui_changes + 1
    /\ fetched_at_change' = IF ui_changes = 0 THEN Len(fetched) ELSE fetched_at_change
    /\ UNCHANGED <<monitoring, last_ui_hash, screenshot_paths, main_pc, mon_pc,
                   current_ui_hash, shot_name, interval, slept, fetched, capture_failed,
                   mon_calls>>


(***************************************************************************)
(* AdbController.get_ui_dump_hash                                          *)
(*                                                                         *)
(* A UI dump is the text dump_hierarchy() returns: one node after another, *)
(* each with its attributes name="value".  The text is modelled as a       *)
(* sequence of tokens: an attribute name with its "=", the quote, and the  *)
(* characters of a value, which hold no quote (XML escapes it).            *)
(***************************************************************************)
Quote == "\""

Digits == {"1", "2"}

\* the values a text attribute takes: empty, clock readouts, a clock readout
\* inside a longer text, and a text that is no clock
TextValues ==
    { <<>>,
      <<"1", "2", ":", "2", "1">>,
      <<"1", ":", "2", "1">>,
      <<"a", "1", "2", ":", "2", "1">>,
      <<"a", "1", ":", "2", "1">>,
      <<"a">> }

\* the values a content-desc attribute takes
DescValues == { <<>>, <<"a">> }

UiNodes == [text : TextValues, desc : DescValues]

RECURSIVE DumpsOfLen(_)
DumpsOfLen(n) ==
    IF n = 0 THEN { <<>> }
    ELSE { Append(d, nd) : d \in DumpsOfLen(n - 1), nd \in UiNodes }

Dumps == UNION { DumpsOfLen(n) : n \in 1..MaxNodes }

\* the text of one node
NodeXml(nd) ==
    <<"<node", "text=", Quote>> \o nd.text \o <<Quote, "content-desc=", Quote>>
        \o nd.desc \o <<Quote, "/>">>

\* device.dump_hierarchy()
RECURSIVE DumpHierarchy(_)
DumpHierarchy(d) ==
    IF d = <<>> THEN <<>> ELSE NodeXml(Head(d)) \o DumpHierarchy(Tail(d))

IsDigitAt(s, i) == i <= Len(s) /\ s[i] \in Digits

IsTokenAt(s, i, tok) == i <= Len(s) /\ s[i] = tok

\* mutant of ClockMatchLen: the hour has to have two digits
ClockMatchLenTwoDigitHour(s) ==
    IF /\ IsTokenAt(s, 1, "text=") /\ IsTokenAt(s, 2, Quote)
       /\ IsDigitAt(s, 3) /\ IsDigitAt(s, 4) /\ IsTokenAt(s, 5, ":")
       /\ IsDigitAt(s, 6) /\ IsDigitAt(s, 7) /\ IsTokenAt(s, 8, Quote)
    THEN 8
    ELSE 0

\* the length of the match of  text="\d{1,2}:\d{2}"  at the start of s, 0 when
\* there is none: \d{1,2} takes two digits when it can, one otherwise
ClockMatchLen(s) ==
    IF /\ IsTokenAt(s, 1, "text=") /\ IsTokenAt(s, 2, Quote)
       /\ IsDigitAt(s, 3) /\ IsDigitAt(s, 4) /\ IsTokenAt(s, 5, ":")
       /\ IsDigitAt(s, 6) /\ IsDigitAt(s, 7) /\ IsTokenAt(s, 8, Quote)
    THEN 8
    ELSE IF /\ IsTokenAt(s, 1, "text=") /\ IsTokenAt(s, 2, Quote)
            /\ IsDigitAt(s, 3) /\ IsTokenAt(s, 4, ":")
            /\ IsDigitAt(s, 5) /\ IsDigitAt(s, 6) /\ IsTokenAt(s, 7, Quote)
    THEN 7
    ELSE 0

\* re.sub(r'text="\d{1,2}:\d{2}"', "", xml_content): every match, from left to
\* right, is removed
RECURSIVE StripClock(_)
StripClock(s) ==
    IF s = <<>> THEN <<>>
    ELSE LET n == ClockMatchLen(s) IN
         IF n > 0 THEN StripClock(SubSeq(s, n + 1, Len(s)))
         ELSE <<Head(s)>> \o StripClock(Tail(s))

\* the length of the match of  content-desc=".*?"  at the start of s, 0 when
\* there is none: .*? stops at the first quote that follows
DescMatchLen(s) ==
    IF IsTokenAt(s, 1, "content-desc=") /\ IsTokenAt(s, 2, Quote)
       /\ \E j \in 3..Len(s) : s[j] = Quote
    THEN Min({j \in 3..Len(s) : s[j] = Quote})
    ELSE 0

\* re.sub(r'content-desc=".*?"', "", xml_content)
RECURSIVE StripDesc(_)
StripDesc(s) ==
    IF s = <<>> THEN <<>>
    ELSE LET n == DescMatchLen(s) IN
         IF n > 0 THEN StripDesc(SubSeq(s, n + 1, Len(s)))
         ELSE <<Head(s)>> \o StripDesc(Tail(s))

\* hashlib.md5(...).hexdigest(): equal for equal texts, taken to differ for
\* different ones
Md5(s) == <<"md5", s>>

\* get_ui_dump_hash(): None when dump_hierarchy() raises
GetUiDumpHash(d, ok) ==
    IF ok THEN Md5(StripDesc(StripClock(DumpHierarchy(d)))) ELSE <<"None">>

(***************************************************************************)
(* The mitm script of MitmproxyCapture._create_mitm_script: the hooks      *)
(* request(flow) and response(flow), the list `flows` and the file they    *)
(* rewrite.  A host is the sequence of its labels.                         *)
(***************************************************************************)
\* the HTTP flows the application produces: two hosts of its own and the
\* emulator's control-plane host
HttpFlows ==
    { [url |-> "A", host |-> <<"a", "com">>],
      [url |-> "B", host |-> <<"b", "com">>],
      [url |-> "X", host |-> <<"api", "ldmnq", "com">>] }

FlowUrls == { f.url : f \in HttpFlows }

\* what response() stores: status, headers and content; the same with content
\* "[Decode Error]"; the marker "No response received"
ResponseKinds == {"response", "decode_error", "no_response"}

\* the invocations of a hook that can be in progress at once
Handlers == {1, 2}

\* mutant of Excluded: no host is excluded
ExcludedNever(host) == FALSE

\* flow.request.host.find("ldmnq.com") != -1
Excluded(host) ==
    \E i \in 1..(Len(host) - 1) : SubSeq(host, i, i + 1) = <<"ldmnq", "com">>

\* mutant of FirstPending: the scan does not test that the response is None
FirstWithUrl(fl, u) ==
    IF \E i \in DOMAIN fl : fl[i].url = u
    THEN Min({i \in DOMAIN fl : fl[i].url = u})
    ELSE 0

\* mutant of FirstPending: the scan runs from the newest record to the oldest
LastPending(fl, u) ==
    IF \E i \in DOMAIN fl : fl[i].url = u /\ fl[i].response = "pending"
    THEN CHOOSE i \in DOMAIN fl :
           /\ fl[i].url = u /\ fl[i].response = "pending"
           /\ \A j \in DOMAIN fl :
                (fl[j].url = u /\ fl[j].response = "pending") => j <= i
    ELSE 0

\* `for flow_entry in flows: if flow_entry["request"]["url"] == ... and
\* flow_entry["response"] is None`: the index of the first such record, 0
\* when there is none
FirstPending(fl, u) ==
    IF \E i \in DOMAIN fl : fl[i].url = u /\ fl[i].response = "pending"
    THEN Min({i \in DOMAIN fl : fl[i].url = u /\ fl[i].response = "pending"})
    ELSE 0

\* an invocation of a hook: where it is, the URL of its flow, the record its
\* scan found, the response it stores, the text it writes to the file
IdleHandler == [pc |-> "idle", url |-> "none", idx |-> 0, kind |-> "none", snap |-> <<>>]

\* the script is loaded (`flows = []`); flows.json is not written yet
CorrelatorConstructed ==
    /\ flows = <<>>
    /\ flows_file = [st |-> "absent", data |-> <<>>]
    /\ hs = [h \in Handlers |-> IdleHandler]
    /\ proxy = "running"
    /\ awaiting = [u \in FlowUrls |-> 0]
    /\ req_count = 0
    /\ network_flows = <<"unread">>
    /\ stray = <<>>

\* request(flow), lines 74-83: an excluded host returns at once; otherwise the
\* record is appended with response None, and the hook goes on to save
OnRequest(h, f) ==
    /\ proxy = "running"
    /\ hs[h].pc = "idle"
    /\ req_count < MaxRequests
    /\ req_count' = req_count + 1
    /\ awaiting' = [awaiting EXCEPT ![f.url] = @ + 1]
    /\ IF Excluded(f.host)
       THEN UNCHANGED <<flows, hs>>
       ELSE /\ flows' = Append(flows, [n |-> req_count + 1, url |-> f.url,
                                        response |-> "pending"])
            /\ hs' = [hs EXCEPT ![h] = [IdleHandler EXCEPT !.pc = "open", !.url = f.url]]
    /\ UNCHANGED <<flows_file, proxy, network_flows, stray>>

\* mutant of OnResponse: the record found is resolved, the file is not saved
OnResponseNoSave(h, f, kind) ==
    /\ proxy = "running"
    /\ hs[h].pc = "idle"
    /\ awaiting[f.url] > 0
    /\ awaiting' = [awaiting EXCEPT ![f.url] = @ - 1]
    /\ IF ~Excluded(f.host) /\ FirstPending(flows, f.url) # 0
       THEN flows' = [flows EXCEPT ![FirstPending(flows, f.url)].response = kind]
       ELSE UNCHANGED flows
    /\ UNCHANGED <<hs, flows_file, proxy, req_count, network_flows, stray>>

\* mutant of OnResponse: the file is saved after the scan whether or not a
\* record was found
OnResponseSaveAfterScan(h, f, kind) ==
    /\ proxy = "running"
    /\ hs[h].pc = "idle"
    /\ awaiting[f.url] > 0
    /\ awaiting' = [awaiting EXCEPT ![f.url] = @ - 1]
    /\ IF Excluded(f.host) THEN UNCHANGED hs
       ELSE IF FirstPending(flows, f.url) # 0
       THEN hs' = [hs EXCEPT ![h] = [IdleHandler EXCEPT
                                       !.pc = "update",
                                       !.url = f.url,
                                       !.idx = FirstPending(flows, f.url),
                                       !.kind = kind]]
       ELSE hs' = [hs EXCEPT ![h] = [IdleHandler EXCEPT !.pc = "open", !.url = f.url]]
    /\ UNCHANGED <<flows, flows_file, proxy, req_count, network_flows, stray>>

\* response(flow), lines 90-94: an excluded host returns at once; otherwise the
\* list is scanned for the first record with this URL and no response yet.
\* The response event of a flow comes after its request event.
OnResponse(h, f, kind) ==
    /\ proxy = "running"
    /\ hs[h].pc = "idle"
    /\ awaiting[f.url] > 0
    /\ awaiting' = [awaiting EXCEPT ![f.url] = @ - 1]
    /\ IF ~Excluded(f.host) /\ FirstPending(flows, f.url) # 0
       THEN hs' = [hs EXCEPT ![h] = [IdleHandler EXCEPT
                                       !.pc = "update",
                                       !.url = f.url,
                                       !.idx = FirstPending(flows, f.url),
                                       !.kind = kind]]
       ELSE UNCHANGED hs
    /\ UNCHANGED <<flows, flows_file, proxy, req_count, network_flows, stray>>

\* response(flow), lines 90-94, called for a flow whose request event the
\* script did not see: the same scan, by URL
OnStrayResponse(h, f, kind) ==
    /\ proxy = "running"
    /\ hs[h].pc = "idle"
    /\ Len(stray) < MaxStray
    /\ stray' = Append(stray, f.url)
    /\ IF ~Excluded(f.host) /\ FirstPending(flows, f.url) # 0
       THEN hs' = [hs EXCEPT ![h] = [IdleHandler EXCEPT
                                       !.pc = "update",
                                       !.url = f.url,
                                       !.idx = FirstPending(flows, f.url),
                                       !.kind = kind]]
       ELSE UNCHANGED hs
    /\ UNCHANGED <<flows, flows_file, proxy, awaiting, req_count, network_flows>>

\* mutant of HandlerUpdate: the loop has no `break` and resolves every
\* pending record with the URL
HandlerUpdateNoBreak(h) ==
    /\ proxy = "running"
    /\ hs[h].pc = "update"
    /\ flows' = [i \in DOMAIN flows |->
                   IF flows[i].url = hs[h].url /\ flows[i].response = "pending"
                   THEN [flows[i] EXCEPT !.response = hs[h].kind]
                   ELSE flows[i]]
    /\ hs' = [hs EXCEPT ![h].pc = "open"]
    /\ UNCHANGED <<flows_file, proxy, awaiting, req_count, network_flows, stray>>

\* response(flow), lines 95-106: the record found is given its response
HandlerUpdate(h) ==
    /\ proxy = "running"
    /\ hs[h].pc = "update"
    /\ flows' = [flows EXCEPT ![hs[h].idx].response = hs[h].kind]
    /\ hs' = [hs EXCEPT ![h].pc = "open"]
    /\ UNCHANGED <<flows_file, proxy, awaiting, req_count, network_flows, stray>>

\* open(path, 'w'), lines 86 and 109: the file is created or cut to nothing
HandlerOpen(h) ==
    /\ proxy = "running"
    /\ hs[h].pc = "open"
    /\ flows_file' = [st |-> "truncated", data |-> <<>>]
    /\ hs' = [hs EXCEPT ![h].pc = "dump"]
    /\ UNCHANGED <<flows, proxy, awaiting, req_count, network_flows, stray>>

\* json.dump(flows, f, ...), lines 87 and 110: the list as it is now is
\* written out; until the file is closed only a part of the text is in it
HandlerDump(h) ==
    /\ proxy = "running"
    /\ hs[h].pc = "dump"
    /\ flows_file' = [st |-> "partial", data |-> <<>>]
    /\ hs' = [hs EXCEPT ![h].pc = "close", ![h].snap = flows]
    /\ UNCHANGED <<flows, proxy, awaiting, req_count, network_flows, stray>>

\* the end of the `with` block: the rest is flushed and the file closed
HandlerClose(h) ==
    /\ proxy = "running"
    /\ hs[h].pc = "close"
    /\ flows_file' = [st |-> "complete", data |-> hs[h].snap]
    /\ hs' = [hs EXCEPT ![h] = IdleHandler]
    /\ UNCHANGED <<flows, proxy, awaiting, req_count, network_flows, stray>>

\* MitmproxyCapture.stop, lines 54-59: terminate(), then kill() after 5 s; the
\* process ends wherever its hooks are
Terminate ==
    /\ proxy = "running"
    /\ proxy' = "terminated"
    /\ UNCHANGED <<flows, flows_file, hs, awaiting, req_count, network_flows, stray>>

\* stop() returns the path when the file exists, and run() loads it
\* (APKTestSuite.run, lines 72-78): a text that is no JSON document gives the
\* failure message, no file leaves the report without flows
ReadFlows ==
    /\ proxy = "terminated"
    /\ network_flows = <<"unread">>
    /\ network_flows' =
         CASE flows_file.st = "absent" -> <<"absent">>
           [] flows_file.st = "complete" -> <<"flows", flows_file.data>>
           [] OTHER -> <<"failed">>
    /\ UNCHANGED <<flows, flows_file, hs, proxy, awaiting, req_count, stray>>

FingerprinterIdle ==
    /\ xml_a = <<>>
    /\ xml_b = <<>>
    /\ hash_a = <<"unset">>
    /\ hash_b = <<"unset">>

\* the state of the components other than the engine and the detector while
\* these two run
\* APKTestSuite.run, lines 30-31: run() has not gone further than its first
\* two statements
RunNotBegun ==
    /\ run_pc = "begin"
    /\ run_log = <<>>
    /\ package_name = "None"
    /\ report_screenshots = <<"unset">>

OthersIdle == FingerprinterIdle /\ CorrelatorConstructed /\ engine_pc = "idle" /\ RunNotBegun

(***************************************************************************)
(* Actions of the exploration loop (APKTestSuite.run, lines 57-62).        *)
(***************************************************************************)
EngineInit ==
    /\ tree \in Trees
    /\ visited_elements = {}
    /\ idle = 0
    /\ loop_alive = TRUE
    /\ last_acts = <<>>
    /\ last_fired = "reset"
    /\ last_raised = FALSE
    /\ last_hit = "none"
    /\ new_el = 0
    /\ new_calls = 0
    /\ since_back = -1
    /\ recent_fired = <<>>

\* one call self.explorer.explore_step()
ExploreCall(st, cst) ==
    /\ loop_alive
    /\ \E r \in {ExploreStepResult(tree, visited_elements, idle, st, cst)} :
        /\ Cardinality(r.visited) <= MaxVisited
        /\ visited_elements' = r.visited
        /\ idle' = IF r.acted THEN 0 ELSE idle
        /\ last_acts' = r.acts
        /\ last_fired' = r.fired
        /\ last_raised' = r.raised
        /\ last_hit' = r.hit
        \* UiObjectNotFoundError is none of the exceptions run() catches
        /\ loop_alive' = ~r.raised
    /\ UNCHANGED tree

ExploreStep ==
    /\ \E st \in StalePoints, cst \in ConfirmStalePoints : ExploreCall(st, cst)
    /\ UNCHANGED <<dedup_vars, monitor_vars, other_vars>>

ClearLast ==
    /\ last_acts' = <<>>
    /\ last_fired' = "reset"
    /\ last_hit' = "none"
    /\ UNCHANGED last_raised

\* time.sleep between two calls: the clock advances
Tick ==
    /\ loop_alive
    /\ \E d \in TimeSteps :
         idle' = IF idle + d > idle_for_back_press
                 THEN idle_for_back_press + 1 ELSE idle + d
    /\ ClearLast
    /\ UNCHANGED <<tree, visited_elements, loop_alive, dedup_vars, monitor_vars, other_vars>>

\* the application changes what it shows: one element appears or disappears
UiChange ==
    /\ loop_alive
    /\ \E e \in ElemIds :
         tree' = IF e \in tree THEN tree \ {e} ELSE tree \cup {e}
    /\ tree' \in Trees
    /\ ClearLast
    /\ UNCHANGED <<visited_elements, idle, loop_alive, dedup_vars, monitor_vars, other_vars>>

ExplorerNext ==
    \/ ExploreStep
    \/ Tick
    \/ UiChange

ExplorerInit ==
    /\ EngineInit
    /\ MonitorConstructed
    /\ OthersIdle

SpecExplorer == ExplorerInit /\ [][ExplorerNext]_vars

(***************************************************************************)
(* The engine called at any spacing on a screen that does not change, with *)
(* the time since the last "back" and the branches of the last two calls   *)
(* kept beside it.                                                         *)
(***************************************************************************)
\* one call of explore_step
BackCall ==
    /\ \E st \in StalePoints, cst \in ConfirmStalePoints : ExploreCall(st, cst)
    /\ since_back' = IF last_fired' = "back" THEN 0 ELSE since_back
    /\ recent_fired' = IF Len(recent_fired) < 2
                       THEN Append(recent_fired, last_fired')
                       ELSE <<recent_fired[2], last_fired'>>
    /\ UNCHANGED <<dedup_vars, monitor_vars, fingerprint_vars, correlator_vars,
                   session_vars>>

\* time passes between two calls
BackTick ==
    /\ loop_alive
    /\ \E d \in TimeSteps :
         /\ idle' = IF idle + d > idle_for_back_press
                    THEN idle_for_back_press + 1 ELSE idle + d
         /\ since_back' = IF since_back = -1 THEN -1
                          ELSE IF since_back + d > idle_for_back_press
                          THEN idle_for_back_press + 1 ELSE since_back + d
    /\ ClearLast
    /\ UNCHANGED <<tree, visited_elements, loop_alive, recent_fired>>
    /\ UNCHANGED <<dedup_vars, monitor_vars, fingerprint_vars, correlator_vars,
                   session_vars>>

BackNext ==
    \/ BackCall
    \/ BackTick

SpecBack == ExplorerInit /\ [][BackNext]_vars

(***************************************************************************)
(* explore_step on a live screen.  Every handler queries the device anew   *)
(* (self.d(...) at lines 118, 155, 170 and 183), and the application may   *)
(* redraw between two queries of one call: the handlers up to the          *)
(* bottom-navigation handler see tree t, the tab handler and the generic   *)
(* handler see tree t2.                                                    *)
(***************************************************************************)
ExploreStepLive(t, t2, visited, elapsed, st, cst) ==
    LET h1 == HandleSystemPopups(t, visited, st) IN
    IF h1.ret \/ h1.raised THEN Outcome("popup", h1) ELSE
    LET h2 == HandleInputFields(t, visited, st, cst) IN
    IF h2.ret \/ h2.raised THEN Outcome("input", h2) ELSE
    LET h3 == HandleBottomNavigation(t, visited, st) IN
    IF h3.ret \/ h3.raised THEN Outcome("bottom_nav", h3) ELSE
    LET h4 == HandleTabs(t2, visited, st) IN
    IF h4.ret \/ h4.raised THEN Outcome("tabs", h4) ELSE
    LET h5 == HandleGeneralClickables(t2, visited, st) IN
    IF h5.ret \/ h5.raised THEN Outcome("general", h5) ELSE
    IdleFallback(visited, elapsed)

\* one call of explore_step during which one element may appear or disappear
LiveCall ==
    /\ loop_alive
    /\ \E t2 \in {tree} \cup {u \in Trees : \E e \in ElemIds :
                                      u = tree \cup {e} \/ u = tree \ {e}},
          st \in StalePoints, cst \in ConfirmStalePoints :
        \E r \in {ExploreStepLive(tree, t2, visited_elements, idle, st, cst)} :
            /\ Cardinality(r.visited) <= MaxVisited
            /\ visited_elements' = r.visited
            /\ idle' = IF r.acted THEN 0 ELSE idle
            /\ last_acts' = r.acts
            /\ last_fired' = r.fired
            /\ last_raised' = r.raised
            /\ last_hit' = r.hit
            /\ loop_alive' = ~r.raised
            /\ tree' = t2
    /\ UNCHANGED <<dedup_vars, monitor_vars, other_vars>>

\* the calls follow one another; the idle clock stays below the threshold
LiveNext ==
    \/ LiveCall

SpecLive == ExplorerInit /\ [][LiveNext]_vars

(***************************************************************************)
(* The change detector on its own: the orchestrator starts and stops it    *)
(* (APKTestSuite.run, lines 54 and 70) while the polling thread runs.      *)
(***************************************************************************)
MonitorNext ==
    \/ Start /\ UNCHANGED <<explorer_vars, dedup_vars, other_vars>>
    \/ StopRequest /\ UNCHANGED <<explorer_vars, dedup_vars, other_vars>>
    \/ StopReturn /\ UNCHANGED <<explorer_vars, dedup_vars, other_vars>>
    \/ MonBeginInitial /\ UNCHANGED <<explorer_vars, dedup_vars, other_vars>>
    \/ MonCaptureReturn /\ UNCHANGED <<explorer_vars, dedup_vars, other_vars>>
    \/ MonWhile /\ UNCHANGED <<explorer_vars, dedup_vars, other_vars>>
    \/ MonFetchReturn /\ UNCHANGED <<explorer_vars, dedup_vars, other_vars>>
    \/ MonSleep /\ UNCHANGED <<explorer_vars, dedup_vars, other_vars>>
    \/ MonUiChange /\ UNCHANGED <<explorer_vars, dedup_vars, other_vars>>

MonitorInit ==
    /\ MonitorConstructed
    /\ EngineInit
    /\ tree = {}
    /\ OthersIdle

SpecMonitor == MonitorInit /\ [][MonitorNext]_vars

\* a step of the polling thread (_monitor_loop)
MonThreadStep ==
    /\ \/ MonBeginInitial
       \/ MonCaptureReturn
       \/ MonWhile
       \/ MonFetchReturn
       \/ MonSleep
    /\ UNCHANGED <<explorer_vars, dedup_vars, other_vars>>

\* the return of stop() in the calling thread
StopReturnStep == StopReturn /\ UNCHANGED <<explorer_vars, dedup_vars, other_vars>>

\* The detector when every device call and every sleep returns: a started
\* thread (threading.Thread.start, line 27) that can take a step eventually
\* takes it, and so does the caller blocked in thread.join() (line 32).
SpecMonitorFair ==
    /\ MonitorInit
    /\ [][MonitorNext]_vars
    /\ WF_vars(MonThreadStep)
    /\ WF_vars(StopReturnStep)

(***************************************************************************)
(* A static UI tree in which one new clickable element appears once.       *)
(* Nothing vanishes here, so no interaction point is stale.                *)
(***************************************************************************)
DedupInit ==
    /\ EngineInit
    /\ MonitorConstructed
    /\ Cardinality(tree) < MaxTree
    /\ OthersIdle

\* the one change of the tree: a clickable element appears
DedupAppear ==
    /\ new_el = 0
    /\ \E e \in ElemIds \ tree :
         /\ Elements[e].clickable
         /\ tree' = tree \cup {e}
         /\ new_el' = e
    /\ ClearLast
    /\ UNCHANGED <<visited_elements, idle, loop_alive, new_calls, monitor_vars, other_vars>>

DedupStep ==
    /\ ExploreCall("none", "none")
    /\ new_calls' =
         IF last_fired' = "back" THEN 0
         ELSE IF new_el # 0 /\ \E i \in DOMAIN last_acts' : last_acts'[i].el = new_el
              THEN (IF new_calls >= 1 THEN 2 ELSE 1)
         ELSE new_calls
    /\ UNCHANGED <<new_el, monitor_vars, other_vars>>

DedupNext ==
    \/ DedupAppear
    \/ DedupStep
    \/ Tick

SpecDedup == DedupInit /\ [][DedupNext]_vars

(***************************************************************************)
(* The fingerprinter on its own: two dumps, each fingerprinted.            *)
(***************************************************************************)
\* get_ui_dump_hash() while the device shows the first UI
FingerprintA ==
    /\ hash_a = <<"unset">>
    /\ \E ok \in BOOLEAN : hash_a' = GetUiDumpHash(xml_a, ok)
    /\ UNCHANGED <<xml_a, xml_b, hash_b, explorer_vars, dedup_vars, monitor_vars,
                   correlator_vars, session_vars, back_vars>>

\* get_ui_dump_hash() while the device shows the second UI
FingerprintB ==
    /\ hash_b = <<"unset">>
    /\ \E ok \in BOOLEAN : hash_b' = GetUiDumpHash(xml_b, ok)
    /\ UNCHANGED <<xml_a, xml_b, hash_a, explorer_vars, dedup_vars, monitor_vars,
                   correlator_vars, session_vars, back_vars>>

FingerprintInit ==
    /\ EngineInit
    /\ tree = {}
    /\ MonitorConstructed
    /\ xml_a \in Dumps
    /\ xml_b \in Dumps
    /\ hash_a = <<"unset">>
    /\ hash_b = <<"unset">>
    /\ CorrelatorConstructed
    /\ engine_pc = "idle"
    /\ RunNotBegun

FingerprintNext ==
    \/ FingerprintA
    \/ FingerprintB

SpecFingerprint == FingerprintInit /\ [][FingerprintNext]_vars

(***************************************************************************)
(* The flow correlator with its hooks called one at a time.                *)
(***************************************************************************)
CorrelatorInit ==
    /\ EngineInit
    /\ tree = {}
    /\ MonitorConstructed
    /\ FingerprinterIdle
    /\ CorrelatorConstructed
    /\ engine_pc = "idle"
    /\ RunNotBegun

NotCorrelator ==
    UNCHANGED <<explorer_vars, dedup_vars, monitor_vars, fingerprint_vars, back_vars, session_vars>>

CorrelatorNext ==
    \/ \E f \in HttpFlows : OnRequest(1, f) /\ NotCorrelator
    \/ \E f \in HttpFlows, kind \in ResponseKinds : OnResponse(1, f, kind) /\ NotCorrelator
    \/ HandlerUpdate(1) /\ NotCorrelator
    \/ HandlerOpen(1) /\ NotCorrelator
    \/ HandlerDump(1) /\ NotCorrelator
    \/ HandlerClose(1) /\ NotCorrelator
    \/ Terminate /\ NotCorrelator
    \/ ReadFlows /\ NotCorrelator

SpecCorrelator == CorrelatorInit /\ [][CorrelatorNext]_vars

(***************************************************************************)
(* The flow correlator when the proxy also delivers response events for    *)
(* flows whose request event the script did not record.                    *)
(***************************************************************************)
StrayNext ==
    \/ CorrelatorNext
    \/ \E f \in HttpFlows, kind \in ResponseKinds : OnStrayResponse(1, f, kind) /\ NotCorrelator

SpecCorrelatorStray == CorrelatorInit /\ [][StrayNext]_vars

(***************************************************************************)
(* The flow correlator with its hooks called from several connections at   *)
(* once: an invocation starts while another is still in progress.  The     *)
(* script holds no lock.                                                   *)
(***************************************************************************)
ConcurrentNext ==
    \/ \E h \in Handlers, f \in HttpFlows : OnRequest(h, f) /\ NotCorrelator
    \/ \E h \in Handlers, f \in HttpFlows, kind \in ResponseKinds :
         OnResponse(h, f, kind) /\ NotCorrelator
    \/ \E h \in Handlers : HandlerUpdate(h) /\ NotCorrelator
    \/ \E h \in Handlers : HandlerOpen(h) /\ NotCorrelator
    \/ \E h \in Handlers : HandlerDump(h) /\ NotCorrelator
    \/ \E h \in Handlers : HandlerClose(h) /\ NotCorrelator
    \/ Terminate /\ NotCorrelator
    \/ ReadFlows /\ NotCorrelator

SpecCorrelatorConcurrent == CorrelatorInit /\ [][ConcurrentNext]_vars

(***************************************************************************)
(* A session of APKTestSuite.run, lines 54-70: the detector is started,    *)
(* the main thread calls explore_step and sleeps, the polling thread runs  *)
(* at the same time, and the detector is stopped when the loop is over.    *)
(* The application shows the same two elements throughout (any of them    *)
(* may be gone for a moment when the engine reaches for it), so that what  *)
(* the device shows keeps its fingerprint.                                 *)
(***************************************************************************)
\* what the application shows during a session: a navigation tab and a
\* button, a permission popup over a button, or an input field with its
\* confirm button
SessionTrees == { {5, 9}, {1, 9}, {2, 4} }

\* self.ui_monitor.start(): the interval is the default of start()
SessionStart ==
    /\ Start
    /\ interval' = DefaultInterval
    /\ UNCHANGED <<explorer_vars, dedup_vars, other_vars>>

\* self.explorer.explore_step() is called: its device calls are under way
SessionStepBegin ==
    /\ main_pc = "running"
    /\ loop_alive
    /\ engine_pc = "idle"
    /\ engine_pc' = "in_step"
    /\ UNCHANGED <<explorer_vars, dedup_vars, monitor_vars, fingerprint_vars, back_vars,
                   correlator_vars, run_vars>>

\* explore_step returns
SessionStepEnd ==
    /\ engine_pc = "in_step"
    /\ \E st \in StalePoints, cst \in ConfirmStalePoints : ExploreCall(st, cst)
    /\ engine_pc' = "idle"
    /\ UNCHANGED <<dedup_vars, monitor_vars, fingerprint_vars, back_vars, correlator_vars, run_vars>>

\* time.sleep(1) between two calls
SessionSleep ==
    /\ main_pc = "running"
    /\ engine_pc = "idle"
    /\ Tick

\* the loop is over: self.ui_monitor.stop() is called
SessionStop ==
    /\ main_pc = "running"
    /\ engine_pc = "idle"
    /\ StopRequest
    /\ UNCHANGED <<explorer_vars, dedup_vars, other_vars>>

SessionNext ==
    \/ SessionStart
    \/ SessionStepBegin
    \/ SessionStepEnd
    \/ SessionSleep
    \/ SessionStop
    \/ StopReturn /\ UNCHANGED <<explorer_vars, dedup_vars, other_vars>>
    \/ MonBeginInitial /\ UNCHANGED <<explorer_vars, dedup_vars, other_vars>>
    \/ MonCaptureReturn /\ UNCHANGED <<explorer_vars, dedup_vars, other_vars>>
    \/ MonWhile /\ UNCHANGED <<explorer_vars, dedup_vars, other_vars>>
    \/ MonFetchReturn /\ UNCHANGED <<explorer_vars, dedup_vars, other_vars>>
    \/ MonSleep /\ UNCHANGED <<explorer_vars, dedup_vars, other_vars>>

SessionInit ==
    /\ EngineInit
    /\ tree \in SessionTrees
    /\ MonitorConstructed
    /\ OthersIdle

SpecSession == SessionInit /\ [][SessionNext]_vars

(***************************************************************************)
(* APKTestSuite.run from its first statement to the written report.  The   *)
(* polling thread runs beside it from ui_monitor.start() on.  No traffic   *)
(* passes the proxy during the run, so that flows.json is never written.   *)
(***************************************************************************)
\* one step of run() as run_log records it
Did(step, ok) == [step |-> step, ok |-> ok]

NotRun == UNCHANGED <<explorer_vars, dedup_vars, monitor_vars, fingerprint_vars, back_vars,
                      correlator_vars, engine_pc>>

\* lines 34-38: static analysis; an "error" key raises ValueError, which the
\* except clause of line 66 catches
RunAnalysis ==
    /\ run_pc = "begin"
    /\ \E ok \in BOOLEAN :
         /\ run_log' = Append(run_log, Did("analysis", ok))
         /\ package_name' = IF ok THEN "app" ELSE package_name
         /\ run_pc' = IF ok THEN "capture" ELSE "finally"
    /\ UNCHANGED report_screenshots
    /\ NotRun

\* lines 41-42: network_capture.start(); a failure is only warned about
RunCaptureStart ==
    /\ run_pc = "capture"
    /\ \E ok \in BOOLEAN :
         /\ run_log' = Append(run_log, Did("correlator_start", ok))
         /\ proxy' = IF ok THEN "running" ELSE "terminated"
    /\ run_pc' = "install"
    /\ UNCHANGED <<package_name, report_screenshots>>
    /\ UNCHANGED <<explorer_vars, dedup_vars, monitor_vars, fingerprint_vars, back_vars, engine_pc,
                   flows, flows_file, hs, awaiting, req_count, network_flows, stray>>

\* lines 46-48: the old version is uninstalled, the APK installed; a failed
\* install raises RuntimeError
RunInstall ==
    /\ run_pc = "install"
    /\ \E ok \in BOOLEAN :
         /\ run_log' = run_log \o <<Did("clean", TRUE), Did("install", ok)>>
         /\ run_pc' = IF ok THEN "launch" ELSE "finally"
    /\ UNCHANGED <<package_name, report_screenshots>>
    /\ NotRun

\* mutant of RunLaunch: the result of start_app is not looked at
RunLaunchUnchecked ==
    /\ run_pc = "launch"
    /\ \E ok \in BOOLEAN :
         /\ run_log' = Append(run_log, Did("launch", ok))
         /\ run_pc' = "monitor"
    /\ UNCHANGED <<package_name, report_screenshots>>
    /\ NotRun

\* lines 51-52: start_app; a failed launch raises RuntimeError
RunLaunch ==
    /\ run_pc = "launch"
    /\ \E ok \in BOOLEAN :
         /\ run_log' = Append(run_log, Did("launch", ok))
         /\ run_pc' = IF ok THEN "monitor" ELSE "finally"
    /\ UNCHANGED <<package_name, report_screenshots>>
    /\ NotRun

\* line 54: self.ui_monitor.start()
RunMonitorStart ==
    /\ run_pc = "monitor"
    /\ Start
    /\ interval' = DefaultInterval
    /\ run_log' = Append(run_log, Did("detector_start", TRUE))
    /\ run_pc' = "loop"
    /\ UNCHANGED <<package_name, report_screenshots>>
    /\ UNCHANGED <<explorer_vars, dedup_vars, fingerprint_vars, back_vars, correlator_vars, engine_pc>>

\* lines 58-61: the time is not up, explore_step is called
RunStepBegin ==
    /\ run_pc = "loop"
    /\ Len(SelectSeq(run_log, LAMBDA d : d.step = "explore_step")) < MaxRunSteps
    /\ engine_pc' = "in_step"
    /\ run_pc' = "step"
    /\ UNCHANGED <<run_log, package_name, report_screenshots>>
    /\ UNCHANGED <<explorer_vars, dedup_vars, monitor_vars, fingerprint_vars, back_vars,
                   correlator_vars>>

\* line 61: explore_step returns, or raises UiObjectNotFoundError, which
\* line 66 does not catch: the finally clause runs and the error leaves run()
RunStepEnd ==
    /\ run_pc = "step"
    /\ \E st \in StalePoints, cst \in ConfirmStalePoints : ExploreCall(st, cst)
    /\ engine_pc' = "idle"
    /\ run_log' = Append(run_log, Did("explore_step", loop_alive'))
    /\ run_pc' = IF loop_alive' THEN "sleep" ELSE "finally"
    /\ UNCHANGED <<package_name, report_screenshots>>
    /\ UNCHANGED <<dedup_vars, monitor_vars, fingerprint_vars, back_vars, correlator_vars>>

\* line 62: time.sleep(1)
RunSleep ==
    /\ run_pc = "sleep"
    /\ run_pc' = "loop"
    /\ \E d \in TimeSteps :
         idle' = IF idle + d > idle_for_back_press
                 THEN idle_for_back_press + 1 ELSE idle + d
    /\ UNCHANGED <<tree, visited_elements, loop_alive, last_acts, last_fired,
                   last_raised, last_hit>>
    /\ UNCHANGED <<run_log, package_name, report_screenshots>>
    /\ UNCHANGED <<dedup_vars, monitor_vars, fingerprint_vars, back_vars, correlator_vars, engine_pc>>

\* line 58: test_duration seconds have passed
RunLoopEnd ==
    /\ run_pc = "loop"
    /\ run_pc' = "finally"
    /\ UNCHANGED <<run_log, package_name, report_screenshots>>
    /\ NotRun

\* line 70: self.ui_monitor.stop() is called and clears the flag
RunMonitorStop ==
    /\ run_pc = "finally"
    /\ StopRequest
    /\ run_pc' = "joining"
    /\ UNCHANGED <<run_log, package_name, report_screenshots>>
    /\ UNCHANGED <<explorer_vars, dedup_vars, fingerprint_vars, back_vars, correlator_vars, engine_pc>>

\* line 70: self.ui_monitor.stop() returns
RunMonitorStopped ==
    /\ run_pc = "joining"
    /\ StopReturn
    /\ run_log' = Append(run_log, Did("detector_stop", TRUE))
    /\ run_pc' = "screenshots"
    /\ UNCHANGED <<package_name, report_screenshots>>
    /\ UNCHANGED <<explorer_vars, dedup_vars, fingerprint_vars, back_vars, correlator_vars, engine_pc>>

\* line 71: final_report["screenshots"] = self.ui_monitor.screenshot_paths
RunScreenshots ==
    /\ run_pc = "screenshots"
    /\ report_screenshots' = <<"list", screenshot_paths>>
    /\ run_pc' = "capture_stop"
    /\ UNCHANGED <<run_log, package_name>>
    /\ NotRun

\* lines 72-78: network_capture.stop() and the load of flows.json
RunCaptureStop ==
    /\ run_pc = "capture_stop"
    /\ proxy' = "terminated"
    /\ network_flows' =
         CASE flows_file.st = "absent" -> <<"absent">>
           [] flows_file.st = "complete" -> <<"flows", flows_file.data>>
           [] OTHER -> <<"failed">>
    /\ run_log' = Append(run_log, Did("correlator_stop", TRUE))
    /\ run_pc' = "uninstall"
    /\ UNCHANGED <<package_name, report_screenshots>>
    /\ UNCHANGED <<explorer_vars, dedup_vars, monitor_vars, fingerprint_vars, back_vars, engine_pc,
                   flows, flows_file, hs, awaiting, req_count, stray>>

\* lines 79-80: `if package_name: self.controller.uninstall_app(package_name)`
RunUninstall ==
    /\ run_pc = "uninstall"
    /\ run_log' = IF package_name # "None"
                  THEN Append(run_log, Did("uninstall", TRUE)) ELSE run_log
    /\ run_pc' = "report"
    /\ UNCHANGED <<package_name, report_screenshots>>
    /\ NotRun

\* lines 81-86: the report is written; an error explore_step raised now
\* leaves run()
RunReport ==
    /\ run_pc = "report"
    /\ run_log' = Append(run_log, Did("report_write", TRUE))
    /\ run_pc' = IF loop_alive THEN "returned" ELSE "raised"
    /\ UNCHANGED <<package_name, report_screenshots>>
    /\ NotRun

RunNext ==
    \/ RunAnalysis
    \/ RunCaptureStart
    \/ RunInstall
    \/ RunLaunch
    \/ RunMonitorStart
    \/ RunStepBegin
    \/ RunStepEnd
    \/ RunSleep
    \/ RunLoopEnd
    \/ RunMonitorStop
    \/ RunMonitorStopped
    \/ RunScreenshots
    \/ RunCaptureStop
    \/ RunUninstall
    \/ RunReport
    \/ MonBeginInitial /\ UNCHANGED <<explorer_vars, dedup_vars, other_vars>>
    \/ MonCaptureReturn /\ UNCHANGED <<explorer_vars, dedup_vars, other_vars>>
    \/ MonWhile /\ UNCHANGED <<explorer_vars, dedup_vars, other_vars>>
    \/ MonFetchReturn /\ UNCHANGED <<explorer_vars, dedup_vars, other_vars>>
    \/ MonSleep /\ UNCHANGED <<explorer_vars, dedup_vars, other_vars>>

RunInit ==
    /\ EngineInit
    /\ tree \in SessionTrees
    /\ MonitorConstructed
    /\ OthersIdle

SpecRun == RunInit /\ [][RunNext]_vars

(***************************************************************************)
(* Vocabulary of the properties of the exploration engine.                 *)
(***************************************************************************)
\* the handler a device action belongs to
HandlerOf(role) ==
    IF role \in {"focus", "input", "confirm"} THEN "input" ELSE role

\* the priority of a branch of explore_step
Rank(fired) ==
    CASE fired = "popup" -> 1
      [] fired = "input" -> 2
      [] fired = "bottom_nav" -> 3
      [] fired = "tabs" -> 4
      [] fired = "general" -> 5
      [] OTHER -> 6

\* handler j has a candidate in tree t under VisitedSet v (section 4.1 of the
\* specification, items 1 to 5)
Candidate(j, t, v) ==
    CASE j = 1 -> \E e \in t :
                    /\ Elements[e].rid =
                         "com.android.permissioncontroller:id/permission_allow_button"
                    /\ Elements[e].clickable
      [] j = 2 -> \E e \in t :
                    /\ Elements[e].cls = "android.widget.EditText"
                    /\ Signature(e) \notin v
      [] j = 3 -> \E e \in t :
                    /\ \E i \in DOMAIN BOTTOM_NAV_KEYWORDS :
                         BOTTOM_NAV_KEYWORDS[i] = Elements[e].text
                    /\ Elements[e].clickable
                    /\ Elements[e].top * 100 >= ScreenHeight * 85
                    /\ Signature(e) \notin v
      [] j = 4 -> \E e \in t :
                    /\ Elements[e].cls = "android.widget.TabWidget"
                    /\ Elements[e].clickable
                    /\ Signature(e) \notin v
      [] j = 5 -> \E e \in t :
                    /\ Elements[e].clickable
                    /\ Elements[e].cls # "android.widget.EditText"
                    /\ Elements[e].pkg # "com.android.systemui"
                    /\ ~(/\ \E i \in DOMAIN BOTTOM_NAV_KEYWORDS :
                              BOTTOM_NAV_KEYWORDS[i] = Elements[e].text
                         /\ Elements[e].top * 100 > ScreenHeight * 85)
                    /\ Signature(e) \notin v
      [] OTHER -> FALSE

\* the step is a call of explore_step
IsCall == last_fired' # "reset"

(***************************************************************************)
(* C1                                                                      *)
(***************************************************************************)
\* C1 (as claimed): each call of explore_step performs at most one device
\* action, counting every click, set-text and back press.
C1_AtMostOneAction == Len(last_acts) <= 1

\* C1 (amended): each call of explore_step runs at most one handler and only
\* that handler's device actions occur in it; the popup, bottom-navigation,
\* tab and generic handlers and the idle fallback perform at most one action,
\* while the input-field handler performs up to three, in the order focus
\* click, set-text on the same field, confirm click.
C1_OneHandlerPerCall ==
    /\ Len(last_acts) <= 3
    /\ \A i \in DOMAIN last_acts : HandlerOf(last_acts[i].role) = last_fired
    /\ last_fired # "input" => Len(last_acts) <= 1
    /\ last_fired = "input" =>
         /\ Len(last_acts) >= 1 => last_acts[1].role = "focus"
         /\ Len(last_acts) >= 2 =>
              \/ /\ last_acts[2].role = "input"
                 /\ last_acts[2].op = "set_text"
                 /\ last_acts[2].el = last_acts[1].el
              \/ /\ last_acts[2].role = "confirm"
                 /\ Len(last_acts) = 2
         /\ Len(last_acts) = 3 => last_acts[3].role = "confirm"

\* a call in which the input-field handler clicked the field, entered text
\* and clicked the confirm button
C1_Witness ==
    /\ last_fired = "input"
    /\ Len(last_acts) = 3
    /\ ~last_raised

(***************************************************************************)
(* C2                                                                      *)
(***************************************************************************)
\* C2: the handlers are evaluated in the order popup, input field, bottom
\* navigation, tab, generic clickable, idle fallback; the call is ended by
\* the first of them that has a candidate, every device action of the call
\* is that handler's, and so a handler acts only when no handler of higher
\* priority has a candidate.  With a popup match and an unvisited input
\* field in the tree the call clicks the popup and leaves the field alone.
C2_PriorityOrder ==
    [][IsCall =>
        /\ \A j \in 1..5 :
             (Candidate(j, tree, visited_elements)
              /\ \A k \in 1..(j - 1) : ~Candidate(k, tree, visited_elements))
             => Rank(last_fired') = j
        /\ (\A j \in 1..5 : ~Candidate(j, tree, visited_elements))
             => last_fired' \in {"back", "nothing"}
        /\ \A i \in DOMAIN last_acts' :
             /\ HandlerOf(last_acts'[i].role) = last_fired'
             /\ \A k \in 1..(Rank(last_fired') - 1) :
                  ~Candidate(k, tree, visited_elements)
        /\ (Candidate(1, tree, visited_elements)
            /\ Candidate(2, tree, visited_elements))
             => /\ \A i \in DOMAIN last_acts' : last_acts'[i].role = "popup"
                /\ last_hit' = "none" => Len(last_acts') = 1
      ]_vars

\* the popup was clicked while an unvisited input field was on screen
C2_Witness ==
    /\ last_fired = "popup"
    /\ Len(last_acts) = 1
    /\ last_acts[1].role = "popup"
    /\ Candidate(2, tree, visited_elements)

C4_NoActionOnVisited ==
    \A i \in DOMAIN last_acts :
        last_acts[i].role \in
            {"focus", "input", "confirm", "bottom_nav", "tabs", "general"}
        => ~last_acts[i].seen

\* C4 (amended): the candidate actions of handlers 2 to 5 (the focus click
\* and the text entry on an input field, the click on a bottom-navigation
\* tab, a generic tab or a generic clickable) are never made on an element
\* whose signature is in VisitedSet at the moment of the action; the confirm
\* click inside the input-field handler, like the popup handler and the idle
\* fallback, acts regardless of VisitedSet.
C4_NoCandidateActionOnVisited ==
    \A i \in DOMAIN last_acts :
        last_acts[i].role \in {"focus", "input", "bottom_nav", "tabs", "general"}
        => ~last_acts[i].seen

\* the generic handler clicked an element while a visited tab was on screen
C4_Witness ==
    /\ Len(last_acts) = 1
    /\ last_acts[1].role = "general"
    /\ \E e \in tree :
         /\ Elements[e].cls = "android.widget.TabWidget"
         /\ Signature(e) \in visited_elements
         /\ e # last_acts[1].el

(***************************************************************************)
(* C5                                                                      *)
(***************************************************************************)
\* C5: when none of handlers 1 to 5 has a candidate and more than
\* idle_for_back_press seconds have passed since the last-action timestamp,
\* the call sends exactly one "back", empties VisitedSet and resets the
\* timestamp; when none has a candidate and at most idle_for_back_press
\* seconds have passed, the call sends nothing and leaves VisitedSet and the
\* timestamp as they were.
C5_IdleFallback ==
    [][(IsCall /\ \A j \in 1..5 : ~Candidate(j, tree, visited_elements)) =>
        IF idle > idle_for_back_press
        THEN /\ Len(last_acts') = 1
             /\ last_acts'[1].op = "back"
             /\ visited_elements' = {}
             /\ idle' = 0
        ELSE /\ last_acts' = <<>>
             /\ visited_elements' = visited_elements
             /\ idle' = idle
      ]_vars

\* the idle fallback was taken
C5_Witness ==
    /\ last_fired = "back"
    /\ Len(last_acts) = 1
    /\ last_acts[1].op = "back"
    /\ visited_elements = {}
    /\ idle = 0

C7_StaleIsNoOp ==
    [][(IsCall /\ last_hit' \in {"focus", "act", "confirm_act"}) =>
        /\ ~last_raised'
        /\ loop_alive'
        /\ last_acts' = <<>>
        /\ visited_elements' = visited_elements
        /\ idle' = idle
      ]_vars

(***************************************************************************)
(* C8                                                                      *)
(***************************************************************************)
\* C8: when stop() returns, the polling thread has ended (or was never
\* started): no fingerprint fetch and no capture is in flight, none begins
\* afterwards, and the screenshot list no longer changes.
C8_StopJoinsThread ==
    [][/\ main_pc' = "stopped" => mon_pc' \in {"none", "dead"}
       /\ main_pc = "stopped" =>
            /\ main_pc' = "stopped"
            /\ UNCHANGED <<screenshot_paths, mon_pc, mon_calls, last_ui_hash>>
      ]_vars

\* stop() has returned after a session in which the thread polled and captured
C8_Witness ==
    /\ main_pc = "stopped"
    /\ mon_pc = "dead"
    /\ Len(fetched) >= 1
    /\ Len(screenshot_paths) >= 2

(***************************************************************************)
(* C9                                                                      *)
(***************************************************************************)
\* C9: start() leaves the detector running (flag set, thread alive); the
\* thread's first device call is the capture labelled "initial", made before
\* any fingerprint is fetched or compared and exactly once per start, also
\* when stop() is called right after start().
C9_InitialCaptureFirst ==
    /\ main_pc = "running" => (monitoring /\ mon_pc \notin {"none", "dead"})
    /\ mon_pc \in {"none", "initial"} => mon_calls = <<>>
    /\ mon_pc \notin {"none", "initial"} =>
         /\ Len(mon_calls) >= 1
         /\ mon_calls[1] = "screenshot:initial"
         /\ Cardinality({i \in DOMAIN mon_calls : mon_calls[i] = "screenshot:initial"}) = 1
    /\ \A i \in DOMAIN screenshot_paths :
         screenshot_paths[i] = <<"initial">> => i = 1

\* stop() was called right after start(): the thread made the initial
\* capture and nothing else
C9_Witness ==
    /\ main_pc = "stopped"
    /\ mon_pc = "dead"
    /\ mon_calls = <<"screenshot:initial">>

(***************************************************************************)
(* C10                                                                     *)
(***************************************************************************)
\* the UI has changed exactly once, every fetch and every capture of the
\* session succeeded, the tick that first saw the change (tick k, with
\* k = fetched_at_change + 1) is complete
C10_ChangedOnceAtTickK ==
    /\ ui_changes = 1
    /\ ~capture_failed
    /\ \A i \in DOMAIN fetched : fetched[i] # 0
    /\ Len(fetched) > fetched_at_change
    /\ mon_pc \in {"sleeping", "while", "dead"}

\* C10 (as claimed): against a UI whose fingerprint changes exactly once, at
\* tick k, with every capture succeeding, the detector produces exactly 2
\* screenshots, for every k and every polling interval.
C10_TwoScreenshots ==
    C10_ChangedOnceAtTickK => Len(screenshot_paths) = 2

\* C10 (amended): against a UI whose fingerprint changes exactly once, at
\* tick k, with every fetch and capture succeeding, the detector produces
\* exactly 3 screenshots when k >= 2 (the initial one, one at the first tick,
\* when no fingerprint is stored yet, and the change screenshot) and exactly
\* 2 when k = 1, for every polling interval.
C10_ThreeScreenshots ==
    C10_ChangedOnceAtTickK =>
        /\ Len(screenshot_paths) = IF fetched_at_change >= 1 THEN 3 ELSE 2
        /\ screenshot_paths[1] = <<"initial">>
        /\ screenshot_paths[2] = <<"change", 1>>
        /\ fetched_at_change >= 1 => screenshot_paths[3] = <<"change", 2>>

\* the UI changed at tick 2 or later, the session has been stopped, and the
\* detector holds three screenshots
C10_Witness ==
    /\ C10_ChangedOnceAtTickK
    /\ fetched_at_change >= 1
    /\ main_pc = "stopped"
    /\ Len(screenshot_paths) = 3

(***************************************************************************)
(* C11                                                                     *)
(***************************************************************************)
\* C11: on a tick where the fingerprint cannot be obtained (get_ui_dump_hash
\* returns None), the detector makes no capture, leaves the stored
\* fingerprint and the screenshot list as they are, and goes on to sleep and
\* to the loop test of the next tick: the thread does not end on it.
C11_FetchFailureIsNoChange ==
    [][/\ (mon_pc = "fetching" /\ fetched' = Append(fetched, 0)) =>
            /\ mon_pc' = "sleeping"
            /\ UNCHANGED <<last_ui_hash, screenshot_paths, mon_calls, monitoring>>
       /\ (mon_pc = "sleeping" /\ current_ui_hash = 0) =>
            /\ mon_pc' \in {"sleeping", "while"}
            /\ UNCHANGED <<last_ui_hash, screenshot_paths, mon_calls>>
      ]_vars

\* a fetch failed while a fingerprint was stored, and the thread has made
\* the fetch of the next tick
C11_Witness ==
    /\ last_ui_hash # 0
    /\ \E i \in DOMAIN fetched :
         /\ fetched[i] = 0
         /\ i > 1
         /\ fetched[i - 1] # 0
         /\ Len(fetched) > i
    /\ Len(screenshot_paths) = 2

(***************************************************************************)
(* C12                                                                     *)
(***************************************************************************)
\* s is a clock readout: one or two digits, a colon, two digits
IsClock(s) ==
    \/ /\ Len(s) = 5
       /\ s[1] \in Digits /\ s[2] \in Digits /\ s[3] = ":"
       /\ s[4] \in Digits /\ s[5] \in Digits
    \/ /\ Len(s) = 4
       /\ s[1] \in Digits /\ s[2] = ":" /\ s[3] \in Digits /\ s[4] \in Digits

\* two text values are the same but for a clock readout somewhere in them
SameButClock(v, w) ==
    \E i \in 0..Len(v), k \in 0..Len(v) :
        /\ i + k <= Len(v)
        /\ i + k <= Len(w)
        /\ SubSeq(v, 1, i) = SubSeq(w, 1, i)
        /\ SubSeq(v, Len(v) - k + 1, Len(v)) = SubSeq(w, Len(w) - k + 1, Len(w))
        /\ IsClock(SubSeq(v, i + 1, Len(v) - k))
        /\ IsClock(SubSeq(w, i + 1, Len(w) - k))

\* the two dumps differ only in clock readouts inside text values
DiffersOnlyInClock(d, e) ==
    /\ Len(d) = Len(e)
    /\ \A i \in DOMAIN d :
         /\ d[i].desc = e[i].desc
         /\ d[i].text = e[i].text \/ SameButClock(d[i].text, e[i].text)

\* the two dumps differ only in values of content-desc
DiffersOnlyInDesc(d, e) ==
    /\ Len(d) = Len(e)
    /\ \A i \in DOMAIN d : d[i].text = e[i].text

BothFingerprinted == hash_a[1] = "md5" /\ hash_b[1] = "md5"

\* C12 (as claimed): two UI dumps that differ only in an HH:MM-pattern
\* substring, wherever it occurs in a text value, or only in the value of a
\* content-desc attribute, have identical fingerprints.
C12_ClockAnywhereMasked ==
    (BothFingerprinted
     /\ (DiffersOnlyInClock(xml_a, xml_b) \/ DiffersOnlyInDesc(xml_a, xml_b)))
        => hash_a = hash_b

\* C12 (amended): two UI dumps that differ only in text attributes whose
\* whole value is a clock readout (one or two digits, a colon, two digits) in
\* both dumps, or only in values of content-desc attributes, or in both
\* ways, have identical fingerprints.
C12_WholeClockAndDescMasked ==
    (BothFingerprinted
     /\ Len(xml_a) = Len(xml_b)
     /\ \A i \in DOMAIN xml_a :
          \/ xml_a[i].text = xml_b[i].text
          \/ IsClock(xml_a[i].text) /\ IsClock(xml_b[i].text))
        => hash_a = hash_b

\* two different dumps, one with the clock at 12:21 and the other at 1:21 and
\* with another description, have been fingerprinted
C12_Witness ==
    /\ BothFingerprinted
    /\ xml_a # xml_b
    /\ xml_a[1].text = <<"1", "2", ":", "2", "1">>
    /\ xml_b[1].text = <<"1", ":", "2", "1">>
    /\ xml_a[1].desc # xml_b[1].desc
    /\ hash_a = hash_b

(***************************************************************************)
(* Vocabulary of the properties of the flow correlator.                    *)
(***************************************************************************)
\* the records with URL u that are pending in the list fl
PendingWithUrl(fl, u) ==
    {i \in DOMAIN fl : fl[i].url = u /\ fl[i].response = "pending"}

\* this step is a hook giving a record its response
IsResolveStep(h) == hs[h].pc = "update" /\ hs'[h].pc = "open"

\* this step delivers a request or response event of the control-plane host
IsExcludedEvent == awaiting'["X"] # awaiting["X"]

(***************************************************************************)
(* C13                                                                     *)
(***************************************************************************)
\* C13: a response event resolves the first record, in list order, whose
\* URL is the response's URL and whose response is pending, and changes no
\* other record; the list always stays in the order in which the requests
\* were observed.
C13_ResolvesFirstPending ==
    [][/\ IsResolveStep(1) =>
            \E i \in DOMAIN flows :
                /\ flows[i].url = hs[1].url
                /\ flows[i].response = "pending"
                /\ \A j \in 1..(i - 1) :
                     ~(flows[j].url = hs[1].url /\ flows[j].response = "pending")
                /\ flows' = [flows EXCEPT ![i].response = flows'[i].response]
                /\ flows'[i].response = hs[1].kind
       /\ \A i \in DOMAIN flows', j \in DOMAIN flows' :
            i < j => flows'[i].n < flows'[j].n
      ]_vars

\* requests for A and then B were observed, the response for B came first:
\* the record of B is resolved and saved, the record of A before it is pending
C13_Witness ==
    /\ Len(flows) = 2
    /\ flows[1].url = "A" /\ flows[1].response = "pending"
    /\ flows[2].url = "B" /\ flows[2].response = "response"
    /\ flows_file = [st |-> "complete", data |-> flows]

(***************************************************************************)
(* C14                                                                     *)
(***************************************************************************)
\* C14: for any sequence of events, a request or response event whose host
\* contains the excluded substring creates no record, changes or resolves no
\* record and leaves the file alone; no record ever carries such a host.
C14_ExcludedNeverRecorded ==
    [][/\ IsExcludedEvent => UNCHANGED <<flows, flows_file, hs>>
       /\ \A i \in DOMAIN flows' : flows'[i].url # "X"
      ]_vars

\* a request to the control-plane host and its response were both delivered
\* while another request was pending: one record only, still pending
C14_Witness ==
    /\ req_count = 2
    /\ awaiting["X"] = 0
    /\ awaiting["A"] = 1
    /\ Len(flows) = 1
    /\ flows[1].response = "pending"
    /\ hs[1].pc = "idle"

(***************************************************************************)
(* C15                                                                     *)
(***************************************************************************)
\* C15: a record changes at most once, from pending to resolved: a resolved
\* record is never changed again, no record is removed from the list, and a
\* record changes only in the hook of a response event with its URL.
C15_ResolvedOnce ==
    [][\A i \in DOMAIN flows :
         /\ i \in DOMAIN flows'
         /\ flows'[i].n = flows[i].n
         /\ flows'[i].url = flows[i].url
         /\ flows[i].response # "pending" => flows'[i] = flows[i]
         /\ flows'[i] # flows[i] =>
              /\ IsResolveStep(1)
              /\ hs[1].url = flows[i].url
              /\ flows'[i].response \in ResponseKinds
      ]_vars

\* two requests for the same URL were observed and two responses came: both
\* records are resolved, each with the response of its own event
C15_Witness ==
    /\ Len(flows) = 2
    /\ flows[1].url = "A" /\ flows[1].response = "no_response"
    /\ flows[2].url = "A" /\ flows[2].response = "decode_error"
    /\ hs[1].pc = "idle"

(***************************************************************************)
(* C16                                                                     *)
(***************************************************************************)
\* C16 (as claimed): in every reachable state of the correlator at most one
\* record per URL is pending.
C16_OnePendingPerUrl ==
    \A u \in FlowUrls : Cardinality(PendingWithUrl(flows, u)) <= 1

\* C16 (amended): between two hooks, the pending records with a URL are as
\* many as the requests observed with that URL whose response event is
\* still to come, which can be more than one; a response event resolves one
\* of them only.
C16_PendingPerAwaitedRequest ==
    hs[1].pc = "idle" =>
        \A u \in FlowUrls \ {"X"} :
            Cardinality(PendingWithUrl(flows, u)) = awaiting[u]

\* three requests for the same URL, one response: two records stay pending
C16_Witness ==
    /\ hs[1].pc = "idle"
    /\ Len(flows) = 3
    /\ Cardinality(PendingWithUrl(flows, "A")) = 2
    /\ flows[1].response # "pending"

(***************************************************************************)
(* C17                                                                     *)
(***************************************************************************)
\* C17: once the hook of a request event that appended a record, or of a
\* response event that resolved one, has finished, the file holds the whole
\* list as it is then: every record, in list order, with its response.
C17_FileEqualsListAfterHook ==
    hs[1].pc = "idle" =>
        IF flows = <<>>
        THEN flows_file.st = "absent"
        ELSE flows_file = [st |-> "complete", data |-> flows]

\* a response has resolved the second of three records and the hook has saved
C17_Witness ==
    /\ hs[1].pc = "idle"
    /\ Len(flows) = 3
    /\ flows[1].response = "pending"
    /\ flows[2].response # "pending"
    /\ flows_file.data = flows

(***************************************************************************)
(* C18                                                                     *)
(***************************************************************************)
\* C18: at every moment, also in the middle of a save and when the proxy is
\* terminated, the file holds a complete snapshot of the list (or does not
\* exist yet), never an empty or partly written text, so that what run()
\* loads after stopping the proxy is always a complete list.
C18_FileAlwaysComplete ==
    /\ flows_file.st \in {"absent", "complete"}
    /\ network_flows # <<"failed">>

C20_NoCoordination ==
    [][/\ (mon_pc = "while" /\ (monitoring => Len(fetched) < MaxTicks))
            => ENABLED MonWhile
       /\ mon_pc = "fetching" => ENABLED MonFetchReturn
       /\ mon_pc = "capturing" => ENABLED MonCaptureReturn
       /\ (main_pc = "running" /\ loop_alive /\ engine_pc = "idle")
            => ENABLED SessionStepBegin
       /\ mon_pc' # mon_pc => UNCHANGED <<visited_elements, idle, engine_pc>>
       /\ engine_pc' # engine_pc =>
            UNCHANGED <<monitoring, last_ui_hash, screenshot_paths, mon_pc, mon_calls>>
      ]_vars

\* the polling thread is waiting for a screenshot while the main thread is
\* inside a step of the engine that has acted before
C20_Witness ==
    /\ engine_pc = "in_step"
    /\ mon_pc = "capturing"
    /\ shot_name # <<"initial">>
    /\ visited_elements # {}

(***************************************************************************)
(* C21                                                                     *)
(***************************************************************************)
\* C21: a failure in one component never halts another and stays within the
\* tick or call that produced it: no explore_step call ends by raising, so
\* that the exploration loop is never ended, and the detector never stopped,
\* by a device failure inside a step; and no failed fetch or capture of the
\* detector keeps the engine from its next step.
C21_FailureConfined ==
    /\ ~last_raised
    /\ loop_alive
    /\ (main_pc = "running" /\ engine_pc = "idle" /\ capture_failed)
         => ENABLED SessionStepBegin

(***************************************************************************)
(* C22                                                                     *)
(***************************************************************************)
\* C22: when the input-field handler fires on an unvisited input field (its
\* branch returns True), that field's signature is in VisitedSet when the
\* call ends, whether or not a confirm button was found and whether or not
\* the text entry itself succeeded.
C22_InputFieldAlwaysMarked ==
    [][(IsCall /\ last_fired' = "input") =>
        \A el \in tree :
            (/\ IsEditText(el)
             /\ Unvisited(el, visited_elements)
             /\ \A e \in tree :
                  (IsEditText(e) /\ Unvisited(e, visited_elements)) => el <= e)
            => Signature(el) \in visited_elements'
      ]_vars

(***************************************************************************)
(* C23                                                                     *)
(***************************************************************************)
\* C23: the polling thread checks the stop flag before and immediately after
\* each blocking device call, so a fingerprint fetch that was in flight when
\* stop() cleared the flag is never followed by a screenshot capture.
C23_NoCaptureAfterStopRequest ==
    [][(mon_pc = "fetching" /\ ~monitoring) => mon_pc' # "capturing"]_vars

(***************************************************************************)
(* C24                                                                     *)
(***************************************************************************)
\* C24: once stop() has cleared the flag, the polling thread eventually ends
\* and stop() returns, wherever the thread was when the flag was cleared
\* (initial capture, fetch, change capture, sleep), provided every device
\* call returns.
C24_StopTerminates ==
    (main_pc = "joining") ~> (main_pc = "stopped" /\ mon_pc \in {"none", "dead"})

\* stop() has returned from a detector that was stopped before its first
\* fetch, that is, while the initial capture was pending or in flight
C24_Witness ==
    /\ main_pc = "stopped"
    /\ mon_pc = "dead"
    /\ fetched = <<>>
    /\ "screenshot:initial" \in {mon_calls[i] : i \in DOMAIN mon_calls}

(***************************************************************************)
(* C25                                                                     *)
(***************************************************************************)
\* C25: between idle fallbacks VisitedSet only grows: no step of the engine
\* or of its environment other than the idle fallback removes a signature,
\* and the idle fallback removes all of them.
C25_VisitedOnlyGrows ==
    [][IF IsCall /\ last_fired' = "back"
       THEN visited_elements' = {}
       ELSE visited_elements \subseteq visited_elements'
      ]_vars

\* VisitedSet has grown to two signatures over two calls
C25_Witness ==
    /\ Cardinality(visited_elements) = 2
    /\ last_fired \in {"input", "bottom_nav", "tabs", "general"}
    /\ Len(last_acts) >= 1

(***************************************************************************)
(* C26                                                                     *)
(***************************************************************************)
\* C26: when more than idle_for_back_press seconds have passed since the
\* last successful action at the time explore_step is called, and no click
\* or text entry succeeds in that call (and the call does not raise), the
\* call sends "back" and clears VisitedSet.
C26_IdleAndNoSuccessSendsBack ==
    [][(/\ IsCall
        /\ ~last_raised'
        /\ idle > idle_for_back_press
        /\ \A i \in DOMAIN last_acts' : last_acts'[i].op = "back")
       => /\ last_fired' = "back"
          /\ Len(last_acts') = 1
          /\ visited_elements' = {}
      ]_vars

(***************************************************************************)
(* C27                                                                     *)
(***************************************************************************)
\* C27: the generic-clickable handler never clicks a text-input element, an
\* element of the system UI, or an element the bottom-navigation handler
\* treats as its target (its text is a bottom-navigation keyword and its top
\* edge is at or below 85% of the screen height, the boundary included).
C27_GenericSkipsBottomNavTargets ==
    \A i \in DOMAIN last_acts :
        last_acts[i].role = "general"
        => /\ Elements[last_acts[i].el].cls # "android.widget.EditText"
           /\ Elements[last_acts[i].el].pkg # "com.android.systemui"
           /\ ~(/\ \E k \in DOMAIN BOTTOM_NAV_KEYWORDS :
                     BOTTOM_NAV_KEYWORDS[k] = Elements[last_acts[i].el].text
                /\ Elements[last_acts[i].el].top * 100 >= ScreenHeight * 85)

(***************************************************************************)
(* C28                                                                     *)
(***************************************************************************)
\* the place of a step of run() in the order the specification gives
StepRank(step) ==
    CASE step = "install" -> 1
      [] step = "launch" -> 2
      [] step = "detector_start" -> 3
      [] step = "explore_step" -> 4
      [] step = "detector_stop" -> 5
      [] step = "correlator_stop" -> 6
      [] step = "uninstall" -> 7
      [] step = "report_write" -> 8
      [] OTHER -> 0

\* the step has been performed, with this result
Done(step, ok) == \E i \in DOMAIN run_log : run_log[i] = Did(step, ok)

\* C28: run() performs install, launch, detector start, the exploration
\* loop, detector stop, correlator stop, uninstall and report write in that
\* order, each of them but explore_step at most once; the detector is started
\* and explore_step is called only after install and launch both succeeded;
\* after a failed install or launch the teardown (detector stop, a no-op on a
\* detector that was never started, then correlator stop, uninstall, report
\* write) still runs in that order; and final_report["screenshots"] is read
\* only after the detector has stopped.
C28_RunOrder ==
    /\ \A i, j \in DOMAIN run_log :
         (i < j /\ StepRank(run_log[i].step) # 0 /\ StepRank(run_log[j].step) # 0)
         => \/ StepRank(run_log[i].step) < StepRank(run_log[j].step)
            \/ run_log[i].step = "explore_step" /\ run_log[j].step = "explore_step"
    /\ \A i \in DOMAIN run_log :
         run_log[i].step \in {"detector_start", "explore_step"}
         => Done("install", TRUE) /\ Done("launch", TRUE)
    /\ (Done("install", TRUE) /\ Done("launch", TRUE)
          /\ run_pc \notin {"launch", "monitor"})
         => Done("detector_start", TRUE)
    /\ run_pc \in {"returned", "raised"}
         => /\ Done("detector_stop", TRUE)
            /\ Done("correlator_stop", TRUE)
            /\ Done("report_write", TRUE)
            /\ (Done("install", TRUE) \/ Done("install", FALSE)) => Done("uninstall", TRUE)
            /\ main_pc = "stopped"
            /\ mon_pc \in {"none", "dead"}
    /\ report_screenshots # <<"unset">>
         => /\ Done("detector_stop", TRUE)
            /\ main_pc = "stopped"
            /\ mon_pc \in {"none", "dead"}
            /\ report_screenshots = <<"list", screenshot_paths>>

\* a full run has returned: two explore_step calls were made and the report
\* holds the screenshots the detector took
C28_Witness ==
    /\ run_pc = "returned"
    /\ Done("launch", TRUE)
    /\ Len(SelectSeq(run_log, LAMBDA d : d.step = "explore_step")) = 2
    /\ Done("uninstall", TRUE)
    /\ Len(screenshot_paths) >= 2
    /\ report_screenshots = <<"list", screenshot_paths>>

(***************************************************************************)
(* C29                                                                     *)
(***************************************************************************)
\* C29: between start() and the return of stop() the screenshot list is
\* append-only; every recorded change_N sits at list index N (position N + 1
\* of the sequence); "initial" is recorded at most once and only at index 0;
\* and the labels are pairwise distinct, also when captures fail.
C29_LabelsFollowIndex ==
    [][/\ \/ screenshot_paths' = screenshot_paths
          \/ \E name \in {shot_name} : screenshot_paths' = Append(screenshot_paths, name)
       /\ \A i \in DOMAIN screenshot_paths' :
            /\ screenshot_paths'[i][1] = "change" => screenshot_paths'[i][2] = i - 1
            /\ screenshot_paths'[i] = <<"initial">> => i = 1
       /\ \A i, j \in DOMAIN screenshot_paths' :
            screenshot_paths'[i] = screenshot_paths'[j] => i = j
      ]_vars

\* the initial capture failed, and two changes were recorded after it
C29_Witness ==
    /\ capture_failed
    /\ Len(screenshot_paths) >= 2
    /\ screenshot_paths[1] = <<"change", 0>>
    /\ screenshot_paths[2] = <<"change", 1>>

(***************************************************************************)
(* C30                                                                     *)
(***************************************************************************)
\* C30: when a change capture fails, the stored fingerprint is updated to
\* the fetched one all the same and nothing is appended to the list; and a
\* tick whose fetch returns the stored fingerprint begins no capture, so the
\* failed capture is not retried while the fingerprint stays the same.
C30_FailedCaptureNotRetried ==
    [][/\ (/\ mon_pc = "capturing"
           /\ mon_pc' # "capturing"
           /\ shot_name # <<"initial">>
           /\ screenshot_paths' = screenshot_paths)
          => last_ui_hash' = current_ui_hash
       /\ (/\ mon_pc = "fetching"
           /\ mon_pc' # "fetching"
           /\ current_ui_hash' = last_ui_hash)
          => /\ mon_pc' = "sleeping"
             /\ mon_calls' = mon_calls
             /\ screenshot_paths' = screenshot_paths
      ]_vars

\* the initial capture and the capture of the first change failed, and the
\* next tick fetched the same fingerprint and took no screenshot
C30_Witness ==
    /\ capture_failed
    /\ screenshot_paths = <<>>
    /\ Len(fetched) = 2
    /\ fetched[1] = fetched[2]
    /\ last_ui_hash = fetched[2]
    /\ last_ui_hash # 0
    /\ mon_pc = "sleeping"
    /\ mon_calls = <<"screenshot:initial", "dump_hierarchy", "screenshot:change",
                     "dump_hierarchy">>

(***************************************************************************)
(* C31                                                                     *)
(***************************************************************************)
\* the URLs of which this step delivers a response event
ResponseDelivered ==
    {u \in FlowUrls : awaiting'[u] < awaiting[u]}
        \cup (IF stray' # stray THEN {stray'[Len(stray')]} ELSE {})

\* C31: a response event for which no record with the same URL is pending
\* (no request with that URL was recorded, or every record with that URL is
\* already resolved) leaves the record list unchanged, starts no save and
\* leaves the flow log file as it is.
C31_UnmatchedResponseNoEffect ==
    [][\A u \in ResponseDelivered :
         PendingWithUrl(flows, u) = {}
         => UNCHANGED <<flows, flows_file, hs>>
      ]_vars

\* two response events came for the one recorded request: the second found
\* its record resolved, and list and file are as the first left them
C31_Witness ==
    /\ stray = <<"A">>
    /\ req_count = 1
    /\ awaiting["A"] = 0
    /\ Len(flows) = 1
    /\ flows[1].url = "A"
    /\ flows[1].response # "pending"
    /\ hs[1].pc = "idle"
    /\ flows_file = [st |-> "complete", data |-> flows]

(***************************************************************************)
(* C32                                                                     *)
(***************************************************************************)
\* C32 (as claimed): the explore_step call that directly follows an idle
\* fallback never sends "back".
C32_NoBackDirectlyAfterBack ==
    [][(/\ IsCall
        /\ recent_fired # <<>>
        /\ recent_fired[Len(recent_fired)] = "back")
       => last_fired' # "back"
      ]_vars

\* C32 (amended): the idle fallback resets the last-action timestamp, so any
\* two "back" signals are separated by more than idle_for_back_press seconds;
\* the call that directly follows an idle fallback sends "back" only when
\* more than idle_for_back_press seconds have passed since that fallback.
C32_BacksApartByThreshold ==
    [][(IsCall /\ last_fired' = "back")
       => /\ idle' = 0
          /\ since_back = -1 \/ since_back > idle_for_back_press
      ]_vars

\* two calls in a row sent "back"
C32_Witness ==
    /\ recent_fired = <<"back", "back">>
    /\ last_fired = "back"
    /\ since_back = 0
    /\ idle = 0

====
